---------------------------- MODULE Spec2Model ----------------------------
(***************************************************************************)
(* A model of the coordination core of codex-worktree:                     *)
(*   scripts/task_board.py  - the durable task board and its DirLock       *)
(*   scripts/autopilot.py   - the per-role worker loop (process_one)       *)
(*   scripts/router.py      - the forwarding of receipts (process_receipt) *)
(*   scripts/supervisor.py  - the loop that keeps the daemons running      *)
(*                                                                         *)
(* Eighteen specifications share the variables:                            *)
(*   Spec         the task-board API, one whole operation per step         *)
(*   DispatchSpec set_dispatch with every kind of argument                 *)
(*   LockSpec     several processes inside _update_board, one system call  *)
(*                of DirLock per step                                      *)
(*   WorkerSpec   several worker daemons inside process_one, one           *)
(*                file-system step per step                                *)
(*   RestartSpec  one worker daemon that may crash at any step and is      *)
(*                started again                                            *)
(*   RedeliverySpec  set_dispatch next to message files arriving in an     *)
(*                inbox                                                    *)
(*   RecoverySpec one caller of _update_board and one worker daemon that   *)
(*                find locks left behind, under weak fairness              *)
(*   RouterSpec   the router inside process_receipt, one file-system step  *)
(*                per step, next to a worker rewriting a receipt           *)
(*   DirectiveSpec  the router applying the ::bus-send directives of a     *)
(*                receipt                                                  *)
(*   BootstrapSpec  the lead daemon inside run_lead_bootstrap, which may   *)
(*                crash at any step and is started again                   *)
(*   HappySpec    the four daemons and the router on the happy path, one   *)
(*                step per half of a task-board call                       *)
(*   SupervisorSpec  the supervisor's monitor loop and its children        *)
(*   SerialSpec   several workers around the global lock of the tool       *)
(*                invocation, one system call per step                     *)
(*   Errno22Spec  the router's pass over the outbox when process_receipt   *)
(*                raises OSError                                           *)
(*   RaceSpec     several dispatchers inside dispatch_ready_tasks, with    *)
(*                set_dispatch cut at its read/write gap                   *)
(*   SkipSpec     two worker daemons, one with a blocked message ahead of  *)
(*                a free one in its inbox                                  *)
(*   FileSpec     several processes around a tasks.json that does not      *)
(*                exist yet, one file-system step per step                 *)
(*   CallerSpec   the worker daemons next to one outside call of           *)
(*                "tasks.py fail"                                          *)
(***************************************************************************)
EXTENDS Integers, Sequences, FiniteSets, TLC

VARIABLES
    board,      \* state/tasks/tasks.json: [tasks]
    clock,      \* the time in seconds: what _now() and time.strftime() last returned
    last,       \* the last task-board call: its arguments and its result
    lockDir,    \* whether state/tasks/tasks.lockdir exists
    lockPid,    \* content of tasks.lockdir/pid (0: no pid file)
    procs,      \* LockSpec: per process, its position inside _update_board and its locals
    inbox,      \* WorkerSpec: role -> set of message ids in bus/inbox/<role>/
    archive,    \* role -> set of message ids in state/archive/<role>/
    deadletter, \* role -> set of message ids in bus/deadletter/<role>/
    done,       \* set of <<mid, role>> with state/done/<mid>.<role>.ok
    plock,      \* <<mid, role>> -> [dir, pid]: state/processing/<mid>.<role>.lockdir
    retries,    \* <<mid, role>> -> count in <mid>.<role>.retries.json
    receipts,   \* <<mid, role>> -> the receipt in bus/outbox/<mid>.<role>.md (or NoReceipt)
    workers,    \* per worker instance, its position inside process_one and its locals
    alive,      \* set of pids of running processes
    nextPid,    \* the next pid the operating system hands out
    newIds,     \* how many message ids new_id() has handed out
    ghost,      \* observation only: tool runs per message and role, restarts
    router,     \* RouterSpec: the router's position inside process_receipt, its locals,
                \* state/router/processed/ and the inbox files it has written
    supervisor, \* SupervisorSpec: the supervisor's position inside main, its stop
                \* flag and its procs table
    serial      \* SerialSpec: artifacts/locks/autopilot.global.lockdir and each
                \* worker's position around its tool invocation

vars == <<board, clock, last, lockDir, lockPid, procs, inbox, archive, deadletter,
          done, plock, retries, receipts, workers, alive, nextPid, newIds, ghost,
          router, supervisor, serial>>

boardVars == <<board, clock, last>>
lockVars == <<lockDir, lockPid, procs>>
workerVars == <<inbox, archive, deadletter, done, plock, retries, receipts,
                workers, alive, nextPid, newIds, ghost, router, supervisor, serial>>

---------------------------------------------------------------------------
(* Bounds of the model. *)

MaxErrors == 1      \* failed and retry_error entries on the whole board
MaxClock == 1       \* the clock runs from 0 to MaxClock
MaxHistory == 6     \* history entries on the whole board (one per mutation)

---------------------------------------------------------------------------
(* Text.  Message ids are sequences of characters so that str.strip() is   *)
(* computed, not assumed.  Role names are taken from the roles/ directory  *)
(* and hold no white space; "" is the empty owner.                         *)

M1 == <<"m", "1">>
M2 == <<"m", "2">>
EmptyText == <<>>
NoRouter == <<>>    \* no router process in the session
NoSupervisor == <<>>    \* no supervisor process in the session
NoSerial == <<>>        \* no worker in serial mode
Pad(s) == <<" ">> \o s \o <<" ">>

\* the white space str.strip() removes: blanks and line ends
Whitespace == {" ", "\n"}

RECURSIVE lstrip(_)
lstrip(s) == IF s # <<>> /\ Head(s) \in Whitespace THEN lstrip(Tail(s)) ELSE s

RECURSIVE rstrip(_)
rstrip(s) ==
    IF s # <<>> /\ s[Len(s)] \in Whitespace THEN rstrip(SubSeq(s, 1, Len(s) - 1)) ELSE s

\* str.strip()
strip(s) == rstrip(lstrip(s))

Roles == {"builder-a", "reviewer"}
Owners == Roles \cup {""}
MsgIds == {M1, M2}
RawMsgIds == MsgIds \cup {Pad(M1), <<" ">>}

\* Task ids T<ts>-<hex>: a task id is the rank of its text among the ids.
\* 0 stands for a blank entry of a depends_on list.
TaskIds == {1, 2}

NoDispatch == [from |-> "", to |-> "", intent |-> "", message_id |-> EmptyText, set |-> FALSE]

---------------------------------------------------------------------------
(* task_board.py: pure helpers *)

\* _default_board
default_board == [tasks |-> <<>>]

\* _normalize_text_list: blank items are dropped
normalize_text_list(items) == SelectSeq(items, LAMBDA x : x # 0)

\* the mutant of _history: the record replaces the list
history_overwrite(task, action, by, note) ==
    [task EXCEPT !.history = <<[action |-> action, by |-> by, note |-> note]>>]

\* _history: append one record
history(task, action, by, note) ==
    [task EXCEPT !.history = Append(@, [action |-> action, by |-> by, note |-> note])]

\* _task_index: index of the first task with that id, 0 when there is none (-1 in Python)
task_index(b, task_id) ==
    LET hits == {i \in 1..Len(b.tasks) : b.tasks[i].id = task_id}
    IN IF hits = {} THEN 0 ELSE CHOOSE i \in hits : \A j \in hits : i <= j

\* by_id.get(dep) of _deps_satisfied: the last task with that id, 0 when absent
by_id(b, dep) ==
    LET hits == {i \in 1..Len(b.tasks) : b.tasks[i].id = dep}
    IN IF hits = {} THEN 0 ELSE CHOOSE i \in hits : \A j \in hits : i >= j

\* _deps_satisfied counting only dependencies that are on the board
deps_missing_on_board(b, task) ==
    SelectSeq(normalize_text_list(task.depends_on),
              LAMBDA dep : by_id(b, dep) # 0 /\ b.tasks[by_id(b, dep)].status # "completed")

\* _deps_satisfied: the unmet dependencies, in depends_on order
deps_missing(b, task) ==
    SelectSeq(normalize_text_list(task.depends_on),
              LAMBDA dep : by_id(b, dep) = 0 \/ b.tasks[by_id(b, dep)].status # "completed")

deps_satisfied(b, task) == Len(deps_missing(b, task)) = 0

\* key of _sort_tasks: (created_at, id)
sort_before(t1, t2) ==
    \/ t1.created_at < t2.created_at
    \/ t1.created_at = t2.created_at /\ t1.id < t2.id

\* insert index i into the sorted index list, after the entries not greater (stable)
RECURSIVE sort_insert(_, _, _)
sort_insert(tasks, sorted, i) ==
    IF sorted = <<>> THEN <<i>>
    ELSE IF sort_before(tasks[i], tasks[Head(sorted)])
         THEN <<i>> \o sorted
         ELSE <<Head(sorted)>> \o sort_insert(tasks, Tail(sorted), i)

RECURSIVE sort_upto(_, _)
sort_upto(tasks, n) ==
    IF n = 0 THEN <<>> ELSE sort_insert(tasks, sort_upto(tasks, n - 1), n)

\* _sort_tasks: the indices of the tasks in (created_at, id) order
sort_tasks(tasks) == sort_upto(tasks, Len(tasks))

Result(ok, idx, reason, missing, changed, b) ==
    [ok |-> ok, task |-> idx, reason |-> reason, missing |-> missing,
     changed |-> changed, board |-> b]


---------------------------------------------------------------------------
(* task_board.py: the _mutate function of each operation.  Each returns    *)
(* the result tuple, the changed flag and the board as mutated in memory.  *)
(* Of a task the model keeps the fields an operation reads (id, status,    *)
(* owner, claimed_by, depends_on, dispatch, created_at, intent,            *)
(* source_message_id) and completed_by and history; title, risk,           *)
(* acceptance, evidence, last_error and the other time stamps are written  *)
(* and never read, and are left out.                                       *)

\* add_task._mutate: a new pending task, appended
add_task_from(b, id, owner, depends_on, created_by, now, intent, source_message_id) ==
    LET task == [id |-> id,
                 status |-> "pending",
                 owner |-> owner,
                 claimed_by |-> "",
                 completed_by |-> "",
                 intent |-> IF intent = "" THEN "implement" ELSE intent,
                 depends_on |-> normalize_text_list(depends_on),
                 source_message_id |-> strip(source_message_id),
                 created_by |-> IF created_by = "" THEN "system" ELSE created_by,
                 created_at |-> now,
                 dispatch |-> NoDispatch,
                 history |-> <<>>]
        made == history(task, "created", task.created_by, EmptyText)
    IN Result(TRUE, Len(b.tasks) + 1, "added", <<>>, TRUE,
              [b EXCEPT !.tasks = Append(@, made)])

\* add_task called with the defaults intent="implement", source_message_id=""
add_task_mutate(b, id, owner, depends_on, created_by, now) ==
    add_task_from(b, id, owner, depends_on, created_by, now, "implement", EmptyText)

\* set_dispatch._mutate comparing the message id as given, not stripped
set_dispatch_unstripped(b, task_id, from_role, to_role, intent, message_id) ==
    LET idx == task_index(b, task_id) IN
    IF idx = 0 THEN Result(FALSE, 0, "not_found", <<>>, FALSE, b)
    ELSE
      LET task == b.tasks[idx]
          prev == task.dispatch
      IN
      IF prev.set /\ prev.message_id # EmptyText
      THEN IF prev.message_id = message_id
           THEN Result(TRUE, idx, "already_dispatched_same", <<>>, FALSE, b)
           ELSE Result(FALSE, idx, "already_dispatched", <<>>, FALSE, b)
      ELSE
        LET bound == [task EXCEPT !.dispatch =
                        [from |-> from_role, to |-> to_role, intent |-> intent,
                         message_id |-> strip(message_id), set |-> TRUE]]
            noted == history(bound, "dispatched",
                             IF from_role = "" THEN "system" ELSE from_role,
                             strip(message_id))
        IN Result(TRUE, idx, "ok", <<>>, TRUE, [b EXCEPT !.tasks[idx] = noted])

\* set_dispatch._mutate binding the new message id over a differing one
set_dispatch_rebinding(b, task_id, from_role, to_role, intent, message_id) ==
    LET idx == task_index(b, task_id) IN
    IF idx = 0 THEN Result(FALSE, 0, "not_found", <<>>, FALSE, b)
    ELSE
      LET task == b.tasks[idx]
          prev == task.dispatch
          prev_mid == IF prev.set THEN strip(prev.message_id) ELSE EmptyText
      IN
      IF prev.set /\ prev_mid # EmptyText /\ prev_mid = strip(message_id)
      THEN Result(TRUE, idx, "already_dispatched_same", <<>>, FALSE, b)
      ELSE
        LET bound == [task EXCEPT !.dispatch =
                        [from |-> from_role, to |-> to_role, intent |-> intent,
                         message_id |-> strip(message_id), set |-> TRUE]]
            noted == history(bound, "dispatched",
                             IF from_role = "" THEN "system" ELSE from_role,
                             strip(message_id))
        IN Result(TRUE, idx, "ok", <<>>, TRUE, [b EXCEPT !.tasks[idx] = noted])

\* set_dispatch._mutate
set_dispatch_mutate(b, task_id, from_role, to_role, intent, message_id) ==
    LET idx == task_index(b, task_id) IN
    IF idx = 0 THEN Result(FALSE, 0, "not_found", <<>>, FALSE, b)
    ELSE
      LET task == b.tasks[idx]
          prev == task.dispatch
          prev_mid == IF prev.set THEN strip(prev.message_id) ELSE EmptyText
      IN
      IF prev.set /\ prev_mid # EmptyText
      THEN IF prev_mid = strip(message_id)
           THEN Result(TRUE, idx, "already_dispatched_same", <<>>, FALSE, b)
           ELSE Result(FALSE, idx, "already_dispatched", <<>>, FALSE, b)
      ELSE
        LET bound == [task EXCEPT !.dispatch =
                        [from |-> from_role, to |-> to_role, intent |-> intent,
                         message_id |-> strip(message_id), set |-> TRUE]]
            noted == history(bound, "dispatched",
                             IF from_role = "" THEN "system" ELSE from_role,
                             strip(message_id))
        IN Result(TRUE, idx, "ok", <<>>, TRUE, [b EXCEPT !.tasks[idx] = noted])

\* the successful tail of claim_task._mutate and claim_next_task._mutate
claim_write(task, role, message_id) ==
    LET t1 == [task EXCEPT !.status = "in_progress", !.claimed_by = role]
    IN history(t1, "claimed", role, strip(message_id))

\* claim_task._mutate without the dependency gate
claim_task_ungated(b, task_id, role, message_id) ==
    LET idx == task_index(b, task_id) IN
    IF idx = 0 THEN Result(FALSE, 0, "not_found", <<>>, FALSE, b)
    ELSE
      LET task == b.tasks[idx] IN
      IF task.status = "completed" THEN Result(FALSE, idx, "completed", <<>>, FALSE, b)
      ELSE IF task.status = "failed" THEN Result(FALSE, idx, "failed", <<>>, FALSE, b)
      ELSE IF task.status = "in_progress"
        THEN IF task.claimed_by = role
             THEN Result(TRUE, idx, "already_claimed", <<>>, FALSE, b)
             ELSE Result(FALSE, idx, "claimed_by_other", <<>>, FALSE, b)
      ELSE IF task.owner # "" /\ task.owner # role
        THEN Result(FALSE, idx, "owner_mismatch", <<>>, FALSE, b)
      ELSE Result(TRUE, idx, "claimed", <<>>, TRUE,
                  [b EXCEPT !.tasks[idx] = claim_write(task, role, message_id)])

\* claim_task._mutate without the owner check
claim_task_unowned(b, task_id, role, message_id) ==
    LET idx == task_index(b, task_id) IN
    IF idx = 0 THEN Result(FALSE, 0, "not_found", <<>>, FALSE, b)
    ELSE
      LET task == b.tasks[idx] IN
      IF task.status = "completed" THEN Result(FALSE, idx, "completed", <<>>, FALSE, b)
      ELSE IF task.status = "failed" THEN Result(FALSE, idx, "failed", <<>>, FALSE, b)
      ELSE IF task.status = "in_progress"
        THEN IF task.claimed_by = role
             THEN Result(TRUE, idx, "already_claimed", <<>>, FALSE, b)
             ELSE Result(FALSE, idx, "claimed_by_other", <<>>, FALSE, b)
      ELSE IF ~deps_satisfied(b, task)
        THEN Result(FALSE, idx, "deps_blocked", deps_missing(b, task), FALSE, b)
      ELSE Result(TRUE, idx, "claimed", <<>>, TRUE,
                  [b EXCEPT !.tasks[idx] = claim_write(task, role, message_id)])

\* claim_task._mutate
claim_task_mutate(b, task_id, role, message_id) ==
    LET idx == task_index(b, task_id) IN
    IF idx = 0 THEN Result(FALSE, 0, "not_found", <<>>, FALSE, b)
    ELSE
      LET task == b.tasks[idx] IN
      IF task.status = "completed" THEN Result(FALSE, idx, "completed", <<>>, FALSE, b)
      ELSE IF task.status = "failed" THEN Result(FALSE, idx, "failed", <<>>, FALSE, b)
      ELSE IF task.status = "in_progress"
        THEN IF task.claimed_by = role
             THEN Result(TRUE, idx, "already_claimed", <<>>, FALSE, b)
             ELSE Result(FALSE, idx, "claimed_by_other", <<>>, FALSE, b)
      ELSE IF task.status # "pending"
        THEN Result(FALSE, idx, "invalid_status", <<>>, FALSE, b)
      ELSE IF task.owner # "" /\ task.owner # role
        THEN Result(FALSE, idx, "owner_mismatch", <<>>, FALSE, b)
      ELSE IF ~deps_satisfied(b, task)
        THEN Result(FALSE, idx, "deps_blocked", deps_missing(b, task), FALSE, b)
      ELSE Result(TRUE, idx, "claimed", <<>>, TRUE,
                  [b EXCEPT !.tasks[idx] = claim_write(task, role, message_id)])

\* the scan loop of claim_next_task._mutate over the sorted tasks:
\* [chosen |-> index or 0, reason, missing]
RECURSIVE claim_next_scan(_, _, _, _)
claim_next_scan(b, ordered, role, acc) ==
    IF ordered = <<>> THEN acc
    ELSE
      LET t == b.tasks[Head(ordered)] IN
      IF t.status # "pending" THEN claim_next_scan(b, Tail(ordered), role, acc)
      ELSE IF t.owner # "" /\ t.owner # role
        THEN claim_next_scan(b, Tail(ordered), role,
                             [acc EXCEPT !.reason = "owner_mismatch", !.missing = <<>>])
      ELSE IF ~deps_satisfied(b, t)
        THEN claim_next_scan(b, Tail(ordered), role,
                             [acc EXCEPT !.reason = "deps_blocked",
                                         !.missing = deps_missing(b, t)])
      ELSE [acc EXCEPT !.chosen = Head(ordered)]

\* claim_next_task._mutate
claim_next_task_mutate(b, role, message_id) ==
    LET scan == claim_next_scan(b, sort_tasks(b.tasks), role,
                                [chosen |-> 0, reason |-> "none_available", missing |-> <<>>])
    IN
    IF scan.chosen = 0 THEN Result(FALSE, 0, scan.reason, scan.missing, FALSE, b)
    ELSE Result(TRUE, scan.chosen, "claimed", <<>>, TRUE,
                [b EXCEPT !.tasks[scan.chosen] =
                    claim_write(b.tasks[scan.chosen], role, message_id)])

\* complete_task._mutate without the claimed_by check
complete_task_anyone(b, task_id, role, evidence) ==
    LET idx == task_index(b, task_id) IN
    IF idx = 0 THEN Result(FALSE, 0, "not_found", <<>>, FALSE, b)
    ELSE
      LET task == b.tasks[idx] IN
      IF task.status = "completed"
        THEN Result(TRUE, idx, "already_completed", <<>>, FALSE, b)
      ELSE IF task.status # "in_progress"
        THEN Result(FALSE, idx, "not_in_progress", <<>>, FALSE, b)
      ELSE
        LET t1 == [task EXCEPT !.status = "completed", !.completed_by = role]
        IN Result(TRUE, idx, "completed", <<>>, TRUE,
                  [b EXCEPT !.tasks[idx] = history(t1, "completed", role, strip(evidence))])

\* complete_task._mutate
complete_task_mutate(b, task_id, role, evidence) ==
    LET idx == task_index(b, task_id) IN
    IF idx = 0 THEN Result(FALSE, 0, "not_found", <<>>, FALSE, b)
    ELSE
      LET task == b.tasks[idx] IN
      IF task.status = "completed"
        THEN Result(TRUE, idx, "already_completed", <<>>, FALSE, b)
      ELSE IF task.status # "in_progress"
        THEN Result(FALSE, idx, "not_in_progress", <<>>, FALSE, b)
      ELSE IF task.claimed_by # "" /\ task.claimed_by # role
        THEN Result(FALSE, idx, "claimed_by_other", <<>>, FALSE, b)
      ELSE
        LET t1 == [task EXCEPT !.status = "completed", !.completed_by = role]
        IN Result(TRUE, idx, "completed", <<>>, TRUE,
                  [b EXCEPT !.tasks[idx] = history(t1, "completed", role, strip(evidence))])

\* mark_task_failed._mutate without the guard on completed tasks
mark_task_failed_unguarded(b, task_id, role, error, terminal) ==
    LET idx == task_index(b, task_id) IN
    IF idx = 0 THEN Result(FALSE, 0, "not_found", <<>>, FALSE, b)
    ELSE
      LET task == b.tasks[idx]
          t1 == [task EXCEPT !.status = IF terminal THEN "failed" ELSE @]
          action == IF terminal THEN "failed" ELSE "retry_error"
      IN Result(TRUE, idx, "updated", <<>>, TRUE,
                [b EXCEPT !.tasks[idx] = history(t1, action, role, strip(error))])

\* mark_task_failed._mutate
mark_task_failed_mutate(b, task_id, role, error, terminal) ==
    LET idx == task_index(b, task_id) IN
    IF idx = 0 THEN Result(FALSE, 0, "not_found", <<>>, FALSE, b)
    ELSE
      LET task == b.tasks[idx] IN
      IF task.status = "completed" THEN Result(FALSE, idx, "completed", <<>>, FALSE, b)
      ELSE
        LET t1 == [task EXCEPT !.status = IF terminal THEN "failed" ELSE @]
            action == IF terminal THEN "failed" ELSE "retry_error"
        IN Result(TRUE, idx, "updated", <<>>, TRUE,
                  [b EXCEPT !.tasks[idx] = history(t1, action, role, strip(error))])

\* the mutant of list_dispatchable_tasks: dependencies are not looked at
list_dispatchable_ungated(b, owner) ==
    SelectSeq(sort_tasks(b.tasks),
              LAMBDA i : /\ b.tasks[i].status = "pending"
                         /\ b.tasks[i].owner # ""
                         /\ (owner = "" \/ b.tasks[i].owner = owner)
                         /\ ~(b.tasks[i].dispatch.set
                              /\ strip(b.tasks[i].dispatch.message_id) # EmptyText))

\* list_dispatchable_tasks without the test of dispatch.message_id
list_dispatchable_rebound(b, owner) ==
    SelectSeq(sort_tasks(b.tasks),
              LAMBDA i : /\ b.tasks[i].status = "pending"
                         /\ b.tasks[i].owner # ""
                         /\ (owner = "" \/ b.tasks[i].owner = owner)
                         /\ deps_satisfied(b, b.tasks[i]))

\* list_dispatchable_tasks: indices, in (created_at, id) order
list_dispatchable_tasks(b, owner) ==
    SelectSeq(sort_tasks(b.tasks),
              LAMBDA i : /\ b.tasks[i].status = "pending"
                         /\ b.tasks[i].owner # ""
                         /\ (owner = "" \/ b.tasks[i].owner = owner)
                         /\ ~(b.tasks[i].dispatch.set
                              /\ strip(b.tasks[i].dispatch.message_id) # EmptyText)
                         /\ deps_satisfied(b, b.tasks[i]))

---------------------------------------------------------------------------
(* Spec: the task-board API.  Every step is one whole call: ensure the     *)
(* board file, take the DirLock, read the JSON, run _mutate, write the     *)
(* file when it changed, release the lock.                                 *)

NoCall == [op |-> "none", task_id |-> 0, role |-> "", mid |-> EmptyText,
           terminal |-> FALSE, ok |-> FALSE, reason |-> "", missing |-> <<>>,
           changed |-> FALSE]

Call(op, task_id, role, mid, terminal, r) ==
    [op |-> op, task_id |-> task_id, role |-> role, mid |-> mid,
     terminal |-> terminal, ok |-> r.ok, reason |-> r.reason, missing |-> r.missing,
     changed |-> r.changed]

RECURSIVE history_total(_, _)
history_total(tasks, n) ==
    IF n = 0 THEN 0 ELSE Len(tasks[n].history) + history_total(tasks, n - 1)

RECURSIVE error_total(_, _)
error_total(tasks, n) ==
    IF n = 0 THEN 0
    ELSE Len(SelectSeq(tasks[n].history,
                       LAMBDA h : h.action \in {"failed", "retry_error"}))
         + error_total(tasks, n - 1)

\* the board in memory stays within the history bounds
WithinHistory(b) ==
    /\ history_total(b.tasks, Len(b.tasks)) <= MaxHistory
    /\ error_total(b.tasks, Len(b.tasks)) <= MaxErrors

\* _update_board, lock held throughout: the file is rewritten only when changed
update_board(op, task_id, role, mid, terminal, r) ==
    /\ WithinHistory(r.board)
    /\ board' = IF r.changed THEN r.board ELSE board
    /\ last' = Call(op, task_id, role, mid, terminal, r)

LeadDispatch == {[from |-> "lead", to |-> "builder-a", intent |-> "implement"]}
DispatchArgs == LeadDispatch \cup {[from |-> "", to |-> "reviewer", intent |-> "review"]}
\* the (owner, depends_on) arguments add_task is called with
TaskShapes == {[owner |-> "", depends_on |-> <<>>],
               [owner |-> "builder-a", depends_on |-> <<>>],
               [owner |-> "reviewer", depends_on |-> <<0, 1>>]}
BuilderShape == {[owner |-> "builder-a", depends_on |-> <<>>]}
FailRoles == {"builder-a"}
ClaimMsgIds == {M1}
Note == <<"e">>

add_task(shapes) ==
    \E id \in TaskIds, sh \in shapes, now \in {clock, clock + 1} :
      LET owner == sh.owner  deps == sh.depends_on IN
        /\ (board.tasks = <<>> => now = clock)
        /\ now <= MaxClock
        /\ \A i \in 1..Len(board.tasks) : board.tasks[i].id # id
        /\ clock' = now
        /\ update_board("add_task", id, owner, EmptyText, FALSE,
                        add_task_mutate(board, id, owner, deps, "lead", now))

set_dispatch(args, mids) ==
    \E task_id \in TaskIds, a \in args, mid \in mids :
        /\ update_board("set_dispatch", task_id, a.from, mid, FALSE,
                        set_dispatch_mutate(board, task_id, a.from, a.to, a.intent, mid))
        /\ UNCHANGED clock

claim_task ==
    \E task_id \in TaskIds, role \in Roles, mid \in ClaimMsgIds :
        /\ update_board("claim_task", task_id, role, EmptyText, FALSE,
                        claim_task_mutate(board, task_id, role, mid))
        /\ UNCHANGED clock

claim_next_task ==
    \E role \in Roles, mid \in ClaimMsgIds :
        /\ update_board("claim_next_task", 0, role, EmptyText, FALSE,
                        claim_next_task_mutate(board, role, mid))
        /\ UNCHANGED clock

complete_task ==
    \E task_id \in TaskIds, role \in Roles :
        /\ update_board("complete_task", task_id, role, EmptyText, FALSE,
                        complete_task_mutate(board, task_id, role, Note))
        /\ UNCHANGED clock

mark_task_failed ==
    \E task_id \in TaskIds, role \in FailRoles, terminal \in BOOLEAN :
        /\ update_board("mark_task_failed", task_id, role, EmptyText, terminal,
                        mark_task_failed_mutate(board, task_id, role, Note, terminal))
        /\ UNCHANGED clock

InitIdleLock == lockDir = FALSE /\ lockPid = 0 /\ procs = <<>>

InitIdleWorkers ==
    /\ inbox = <<>> /\ archive = <<>> /\ deadletter = <<>>
    /\ done = {} /\ plock = <<>> /\ retries = <<>> /\ receipts = <<>>
    /\ workers = <<>> /\ alive = {} /\ nextPid = 1 /\ newIds = 0 /\ ghost = <<>> /\ router = NoRouter /\ supervisor = NoSupervisor /\ serial = NoSerial

Init ==
    /\ board = default_board
    /\ clock = 0
    /\ last = NoCall
    /\ InitIdleLock
    /\ InitIdleWorkers

Next ==
    \/ add_task(TaskShapes) /\ UNCHANGED <<lockVars, workerVars>>
    \/ set_dispatch(LeadDispatch, {M1}) /\ UNCHANGED <<lockVars, workerVars>>
    \/ claim_task /\ UNCHANGED <<lockVars, workerVars>>
    \/ claim_next_task /\ UNCHANGED <<lockVars, workerVars>>
    \/ complete_task /\ UNCHANGED <<lockVars, workerVars>>
    \/ mark_task_failed /\ UNCHANGED <<lockVars, workerVars>>

Spec == Init /\ [][Next]_vars

(* DispatchSpec: set_dispatch with every kind of argument (padded, blank   *)
(* and differing message ids, differing from/to/intent) on added tasks.    *)
DispatchNext ==
    \/ add_task(BuilderShape) /\ UNCHANGED <<lockVars, workerVars>>
    \/ set_dispatch(DispatchArgs, RawMsgIds) /\ UNCHANGED <<lockVars, workerVars>>

DispatchSpec == Init /\ [][DispatchNext]_vars

(* RedeliverySpec: the lead adds tasks, writes dispatch messages into the   *)
(* inbox of builder-a and binds tasks to message ids, in any order.  The    *)
(* stale TTL of a dispatch is 0: a binding is stale as soon as no file of   *)
(* its message id is left in an inbox, in an archive or among the done      *)
(* sentinels.                                                               *)
RedeliveryRoles == {"builder-a"}

\* enqueue_bus_message: atomic_write of bus/inbox/<to_role>/<mid>.md
enqueue_bus_message(roles, mids) ==
    \E to_role \in roles, mid \in mids, task_id \in TaskIds :
        /\ inbox' = [inbox EXCEPT ![to_role] = @ \cup {[id |-> mid, task_id |-> task_id]}]
        /\ UNCHANGED <<boardVars, lockVars, archive, deadletter, done, plock, retries,
                       receipts, workers, alive, nextPid, newIds, ghost, router, supervisor, serial>>

RedeliveryInit ==
    /\ board = default_board
    /\ clock = 0
    /\ last = NoCall
    /\ InitIdleLock
    /\ inbox = [r \in Roles |-> {}]
    /\ archive = [r \in Roles |-> {}]
    /\ deadletter = [r \in Roles |-> {}]
    /\ done = {} /\ plock = <<>> /\ retries = <<>> /\ receipts = <<>>
    /\ workers = <<>> /\ alive = {} /\ nextPid = 1 /\ newIds = 0 /\ ghost = <<>> /\ router = NoRouter /\ supervisor = NoSupervisor /\ serial = NoSerial

RedeliveryNext ==
    \/ add_task(BuilderShape) /\ UNCHANGED <<lockVars, workerVars>>
    \/ set_dispatch(LeadDispatch, MsgIds) /\ UNCHANGED <<lockVars, workerVars>>
    \/ enqueue_bus_message(RedeliveryRoles, MsgIds)

RedeliverySpec == RedeliveryInit /\ [][RedeliveryNext]_vars

---------------------------------------------------------------------------
(* LockSpec: NumProcs processes, all alive, each calling                   *)
(* claim_task(LockTask, role) through _update_board.  Every step is one    *)
(* file-system call of DirLock.__enter__, _cleanup_lockdir or the locked   *)
(* body.  lstat+unlink of the pid file are one step, and so is /bin/rm.    *)
(* A lock directory made during a run is never older than                  *)
(* TASK_LOCK_STALE_SECONDS; its age is infinite when stat() finds no       *)
(* directory.                                                              *)

NumProcs == 2       \* processes calling the task board at once

Procs == 1..NumProcs

\* the pid in a lock directory left behind by a process that has died
DeadPid == NumProcs + 10
\* the pid in a lock directory left behind longer ago than the stale
\* threshold, the number since given to a live process
StrayPid == NumProcs + 11

\* _lock_age_seconds(lock_dir) >= the stale threshold: no directory to
\* stat, or the directory left behind long ago
lock_is_old(dir, pid) == ~dir \/ pid = StrayPid
LockTask == 1

Idle == [pc |-> "idle", role |-> "", ret |-> "", pid |-> 0,
         snap |-> default_board, reason |-> ""]

\* _pid_alive
pid_alive(pid) == pid \in alive

\* the return of _cleanup_lockdir: back into the acquire loop, or out of __exit__
cleanup_return(p) == IF procs[p].ret = "acquire" THEN "mkdir" ELSE "returned"

\* _update_board up to the with statement; ensure_task_board finds the file
update_board_enter(p) ==
    /\ procs[p].pc = "idle"
    /\ \E role \in Roles : procs' = [procs EXCEPT ![p].pc = "mkdir", ![p].role = role]
    /\ UNCHANGED <<lockDir, lockPid, board, last>>

\* DirLock.__enter__: os.mkdir(lock_dir)
DirLock_mkdir(p) ==
    /\ procs[p].pc = "mkdir"
    /\ IF lockDir
       THEN /\ procs' = [procs EXCEPT ![p].pc = "read_lock_pid"]
            /\ UNCHANGED <<lockDir, lockPid>>
       ELSE /\ lockDir' = TRUE
            /\ lockPid' = 0
            /\ procs' = [procs EXCEPT ![p].pc = "write_pid"]
    /\ UNCHANGED <<board, last>>

\* DirLock.__enter__: (lock_dir / "pid").write_text(pid); owned = True.
\* With the directory gone the write raises FileNotFoundError.
DirLock_write_pid(p) ==
    /\ procs[p].pc = "write_pid"
    /\ IF lockDir
       THEN /\ lockPid' = p
            /\ procs' = [procs EXCEPT ![p].pc = "read_json"]
       ELSE /\ procs' = [procs EXCEPT ![p].pc = "raised",
                                      ![p].reason = "FileNotFoundError"]
            /\ UNCHANGED lockPid
    /\ UNCHANGED <<lockDir, board, last>>

\* _read_lock_pid: 0 when the pid file cannot be read
read_lock_pid(p) ==
    /\ procs[p].pc = "read_lock_pid"
    /\ procs' = [procs EXCEPT ![p].pc = "lock_age",
                              ![p].pid = IF lockDir THEN lockPid ELSE 0]
    /\ UNCHANGED <<lockDir, lockPid, board, last>>

\* the staleness test of __enter__ trusting every lock directory it finds
lock_age_seconds_trusting(p) ==
    /\ procs[p].pc = "lock_age"
    /\ IF ~lockDir
       THEN procs' = [procs EXCEPT ![p].pc = "cleanup_exists", ![p].ret = "acquire"]
       ELSE procs' = [procs EXCEPT ![p].pc = "poll"]
    /\ UNCHANGED <<lockDir, lockPid, board, last>>

\* _lock_age_seconds and the staleness test of __enter__
lock_age_seconds(p) ==
    /\ procs[p].pc = "lock_age"
    /\ LET stale_age == lock_is_old(lockDir, lockPid) IN
       IF procs[p].pid <= 0 \/ ~pid_alive(procs[p].pid) \/ stale_age
       THEN procs' = [procs EXCEPT ![p].pc = "cleanup_exists", ![p].ret = "acquire"]
       ELSE procs' = [procs EXCEPT ![p].pc = "poll"]
    /\ UNCHANGED <<lockDir, lockPid, board, last>>

\* __enter__: time.sleep(poll_s) and around the loop
DirLock_sleep(p) ==
    /\ procs[p].pc = "poll"
    /\ procs' = [procs EXCEPT ![p].pc = "mkdir"]
    /\ UNCHANGED <<lockDir, lockPid, board, last>>

\* __enter__: raise TimeoutError once timeout_s has passed
DirLock_timeout(p) ==
    /\ procs[p].pc = "poll"
    /\ procs' = [procs EXCEPT ![p].pc = "raised", ![p].reason = "TimeoutError"]
    /\ UNCHANGED <<lockDir, lockPid, board, last>>

\* _cleanup_lockdir: if not lock_dir.exists(): return
cleanup_exists(p) ==
    /\ procs[p].pc = "cleanup_exists"
    /\ procs' = [procs EXCEPT ![p].pc = IF lockDir THEN "cleanup_unlink"
                                        ELSE cleanup_return(p)]
    /\ UNCHANGED <<lockDir, lockPid, board, last>>

\* _cleanup_lockdir: lstat the pid file and unlink it
cleanup_unlink(p) ==
    /\ procs[p].pc = "cleanup_unlink"
    /\ lockPid' = 0
    /\ procs' = [procs EXCEPT ![p].pc = "cleanup_rmdir"]
    /\ UNCHANGED <<lockDir, board, last>>

\* _cleanup_lockdir: os.rmdir, which fails on a missing or non-empty directory
cleanup_rmdir(p) ==
    /\ procs[p].pc = "cleanup_rmdir"
    /\ IF lockDir /\ lockPid = 0
       THEN /\ lockDir' = FALSE
            /\ procs' = [procs EXCEPT ![p].pc = cleanup_return(p)]
       ELSE /\ procs' = [procs EXCEPT ![p].pc = "cleanup_rename"]
            /\ UNCHANGED lockDir
    /\ UNCHANGED <<lockPid, board, last>>

\* _cleanup_lockdir: os.rename(lock_dir, stale_root / ...), pid file and all
cleanup_rename(p) ==
    /\ procs[p].pc = "cleanup_rename"
    /\ IF lockDir
       THEN /\ lockDir' = FALSE
            /\ lockPid' = 0
            /\ procs' = [procs EXCEPT ![p].pc = cleanup_return(p)]
       ELSE /\ procs' = [procs EXCEPT ![p].pc = "cleanup_rm"]
            /\ UNCHANGED <<lockDir, lockPid>>
    /\ UNCHANGED <<board, last>>

\* _cleanup_lockdir: /bin/rm -rf lock_dir
cleanup_rm(p) ==
    /\ procs[p].pc = "cleanup_rm"
    /\ lockDir' = FALSE
    /\ lockPid' = 0
    /\ procs' = [procs EXCEPT ![p].pc = cleanup_return(p)]
    /\ UNCHANGED <<board, last>>

\* _update_board: board = _read_json(bp.file)
update_board_read(p) ==
    /\ procs[p].pc = "read_json"
    /\ procs' = [procs EXCEPT ![p].pc = "mutate", ![p].snap = board]
    /\ UNCHANGED <<lockDir, lockPid, board, last>>

\* _update_board: mutate_fn(board), _atomic_write_json when changed, and
\* into DirLock.__exit__
update_board_write(p) ==
    /\ procs[p].pc = "mutate"
    /\ LET r == claim_task_mutate(procs[p].snap, LockTask, procs[p].role, M1) IN
         /\ board' = IF r.changed THEN r.board ELSE board
         /\ last' = Call("claim_task", LockTask, procs[p].role, EmptyText, FALSE, r)
         /\ procs' = [procs EXCEPT ![p].pc = "cleanup_exists", ![p].ret = "release",
                                   ![p].snap = default_board, ![p].reason = r.reason]
    /\ UNCHANGED <<lockDir, lockPid>>

\* a board with one pending task anyone may claim, nobody inside a call
LockInit ==
    /\ board = add_task_mutate(default_board, LockTask, "", <<>>, "lead", 0).board
    /\ clock = 0
    /\ last = NoCall
    /\ lockDir = FALSE
    /\ lockPid = 0
    /\ procs = [p \in Procs |-> Idle]
    /\ inbox = <<>> /\ archive = <<>> /\ deadletter = <<>>
    /\ done = {} /\ plock = <<>> /\ retries = <<>> /\ receipts = <<>>
    /\ workers = <<>> /\ alive = Procs /\ nextPid = NumProcs + 1 /\ newIds = 0
    /\ ghost = <<>> /\ router = NoRouter /\ supervisor = NoSupervisor /\ serial = NoSerial

idleRest == <<clock, workerVars>>

LockNext ==
    \E p \in Procs :
        \/ update_board_enter(p) /\ UNCHANGED idleRest
        \/ DirLock_mkdir(p) /\ UNCHANGED idleRest
        \/ DirLock_write_pid(p) /\ UNCHANGED idleRest
        \/ read_lock_pid(p) /\ UNCHANGED idleRest
        \/ lock_age_seconds(p) /\ UNCHANGED idleRest
        \/ DirLock_sleep(p) /\ UNCHANGED idleRest
        \/ DirLock_timeout(p) /\ UNCHANGED idleRest
        \/ cleanup_exists(p) /\ UNCHANGED idleRest
        \/ cleanup_unlink(p) /\ UNCHANGED idleRest
        \/ cleanup_rmdir(p) /\ UNCHANGED idleRest
        \/ cleanup_rename(p) /\ UNCHANGED idleRest
        \/ cleanup_rm(p) /\ UNCHANGED idleRest
        \/ update_board_read(p) /\ UNCHANGED idleRest
        \/ update_board_write(p) /\ UNCHANGED idleRest

LockSpec == LockInit /\ [][LockNext]_vars

---------------------------------------------------------------------------
(* FileSpec: NumProcs processes on a new session, where state/tasks.json   *)
(* does not exist yet.  Each makes one call, add_task or one of the reads  *)
(* list_tasks, list_dispatchable_tasks and get_task; every step is one     *)
(* file-system call of ensure_task_board or of the call's body.  DirLock   *)
(* is taken to be exclusive here: acquiring it is one step, so that        *)
(* nothing below depends on the lock protocol of LockSpec.                 *)

\* tasks.json does not exist
NoFile == [exists |-> FALSE]

\* _read_json: the default board when the path does not exist
read_json(file) == IF file = NoFile THEN default_board ELSE file

FileOps == {"add_task", "list_tasks", "list_dispatchable_tasks", "get_task"}

FileIdle == [pc |-> "idle", op |-> "", snap |-> default_board]

fileRest == <<clock, last, workerVars>>

\* a process calls add_task (through _update_board) or a read; each starts
\* with ensure_task_board: if not bp.file.exists()
ensure_task_board(p) ==
    /\ procs[p].pc = "idle"
    /\ \E op \in FileOps :
         procs' = [procs EXCEPT ![p].op = op,
                                ![p].pc = IF board = NoFile THEN "ensure_write"
                                          ELSE IF op = "add_task" THEN "enter"
                                          ELSE "read_json"]
    /\ UNCHANGED <<board, lockDir, lockPid>>

\* ensure_task_board writing the default board only into a missing file
ensure_write_checked(p) ==
    /\ procs[p].pc = "ensure_write"
    /\ board' = IF board = NoFile THEN default_board ELSE board
    /\ procs' = [procs EXCEPT ![p].pc = IF procs[p].op = "add_task" THEN "enter"
                                        ELSE "read_json"]
    /\ UNCHANGED <<lockDir, lockPid>>

\* ensure_task_board: _atomic_write_json(bp.file, _default_board())
ensure_write(p) ==
    /\ procs[p].pc = "ensure_write"
    /\ board' = default_board
    /\ procs' = [procs EXCEPT ![p].pc = IF procs[p].op = "add_task" THEN "enter"
                                        ELSE "read_json"]
    /\ UNCHANGED <<lockDir, lockPid>>

\* _update_board: with DirLock(bp.lock, ...)
file_lock_enter(p) ==
    /\ procs[p].pc = "enter"
    /\ ~lockDir
    /\ lockDir' = TRUE
    /\ lockPid' = p
    /\ procs' = [procs EXCEPT ![p].pc = "read_json"]
    /\ UNCHANGED board

\* board = _read_json(bp.file), in _update_board and in the reads
file_read_json(p) ==
    /\ procs[p].pc = "read_json"
    /\ procs' = [procs EXCEPT ![p].snap = read_json(board),
                              ![p].pc = IF procs[p].op = "add_task" THEN "mutate"
                                        ELSE "returned"]
    /\ UNCHANGED <<board, lockDir, lockPid>>

\* _update_board: add_task's _mutate, _atomic_write_json, DirLock.__exit__
file_write_json(p) ==
    /\ procs[p].pc = "mutate"
    /\ board' = add_task_mutate(procs[p].snap, p, "builder-a", <<>>, "lead", 0).board
    /\ lockDir' = FALSE
    /\ lockPid' = 0
    /\ procs' = [procs EXCEPT ![p].pc = "returned"]

FileInit ==
    /\ board = NoFile
    /\ clock = 0
    /\ last = NoCall
    /\ lockDir = FALSE
    /\ lockPid = 0
    /\ procs = [p \in Procs |-> FileIdle]
    /\ inbox = <<>> /\ archive = <<>> /\ deadletter = <<>>
    /\ done = {} /\ plock = <<>> /\ retries = <<>> /\ receipts = <<>>
    /\ workers = <<>> /\ alive = Procs /\ nextPid = NumProcs + 1 /\ newIds = 0
    /\ ghost = <<>> /\ router = NoRouter /\ supervisor = NoSupervisor /\ serial = NoSerial

FileNext ==
    \E p \in Procs :
        \/ ensure_task_board(p) /\ UNCHANGED fileRest
        \/ ensure_write(p) /\ UNCHANGED fileRest
        \/ file_lock_enter(p) /\ UNCHANGED fileRest
        \/ file_read_json(p) /\ UNCHANGED fileRest
        \/ file_write_json(p) /\ UNCHANGED fileRest

FileSpec == FileInit /\ [][FileNext]_vars

---------------------------------------------------------------------------
(* WorkerSpec: NumWorkers worker daemons inside process_one, one           *)
(* file-system call or one task-board call per step.  A task-board call    *)
(* is one step here; its lock is the subject of LockSpec.  The default     *)
(* configuration is modelled: no global lock (AUTOPILOT_GLOBAL_LOCK off),  *)
(* role boundary mode enforce, no dry run.  A processing lock directory    *)
(* made during a run is never older than LOCK_STALE_SECONDS.               *)

NumWorkers == 2     \* worker daemons
MaxRestarts == 1    \* daemons started again after a crash or a fatal exit
MaxNewIds == 2      \* message ids new_id() can hand out

MaxRetries == 3
DISPATCH_MAX_PER_SCAN == 3

Workers == 1..NumWorkers
\* new_id(): the k-th id handed out; ids start with the time, so they sort
\* in the order they were made
Digits == <<"3", "4", "5", "6", "7", "8", "9">>
NewId(k) == <<"m", Digits[k]>>
\* the file names of an inbox, in sorted order
NameOrder == <<M1, M2>> \o [k \in 1..MaxNewIds |-> NewId(k)]
WorkerMsgIds == {NameOrder[k] : k \in 1..Len(NameOrder)}
Keys == WorkerMsgIds \X Roles

\* a message file: its id (and file name) and the task_id of its front matter
Msg(id, task_id) == [id |-> id, task_id |-> task_id]
NoMsg == Msg(EmptyText, 0)
NoLock == [dir |-> FALSE, pid |-> 0]

\* a receipt file bus/outbox/<mid>.<role>.md: its status and codex_rc lines
Receipt(status, codex_rc, finished_at) ==
    [status |-> status, codex_rc |-> codex_rc, finished_at |-> finished_at,
     \* last_msg: the ::bus-send directives in the tool's final output
     last_msg |-> <<>>]
NoReceipt == Receipt("", 0, 0)

\* nothing observed yet: tool runs and successful runs per message and role,
\* whether a run by a role that may not write the repository added a changed
\* path to its worktree
NoRuns == [runs |-> [k \in Keys |-> 0], successes |-> [k \in Keys |-> 0],
           wrote |-> [k \in Keys |-> FALSE], restarts |-> 0]

\* message_files: the *.md files of the inbox sorted by name
RECURSIVE message_files(_, _)
message_files(order, msgs) ==
    IF order = <<>> THEN <<>>
    ELSE LET here == {m \in msgs : m.id = Head(order)} IN
         (IF here = {} THEN <<>> ELSE <<CHOOSE m \in here : TRUE>>)
           \o message_files(Tail(order), msgs)

\* _role_allows_repo_writes
role_allows_repo_writes(role) == role \in {"builder-a", "builder-b"}

\* the locals of a daemon between two calls of process_one
IdleWorker(role, pid) ==
    [role |-> role, pid |-> pid, pc |-> "idle", files |-> <<>>, i |-> 0,
     msg |-> NoMsg, task_id |-> 0, task_claimed |-> FALSE, n |-> 0,
     ret |-> "", lpid |-> 0, rc |-> 0, new_paths |-> FALSE,
     todo |-> <<>>, sent |-> 0, dmsg |-> NoMsg, dfrom |-> "", dto |-> ""]

\* the daemon after an exception left process_one: daemon() logs and returns
Dead(wr) == [IdleWorker(wr.role, wr.pid) EXCEPT !.pc = "crashed"]

\* continue: on to the next file, or out of the loop with nothing selected
Continue(wr) ==
    IF wr.i < Len(wr.files)
    THEN [wr EXCEPT !.pc = "read", !.i = @ + 1, !.msg = NoMsg, !.lpid = 0, !.ret = ""]
    ELSE IdleWorker(wr.role, wr.pid)

\* the key of the files kept per message and role
key(wr) == <<wr.msg.id, wr.role>>

\* a task-board call, whole: the file changes when _mutate says so
board_call(r) == board' = IF r.changed THEN r.board ELSE board

workerRest == <<clock, last, lockVars, router, supervisor, serial>>
fsVars == <<inbox, archive, deadletter, done, plock, retries, receipts>>
osVars == <<alive, nextPid, newIds>>

\* process_one: files = message_files(sp, role), a non-empty list
process_one(w) ==
    LET wr == workers[w] IN
    /\ wr.pc = "idle"
    /\ inbox[wr.role] # {}
    /\ workers' = [workers EXCEPT ![w] =
                     [wr EXCEPT !.pc = "read", !.i = 1,
                                !.files = message_files(NameOrder, inbox[wr.role])]]
    /\ UNCHANGED <<board, fsVars, osVars, ghost>>
    /\ UNCHANGED workerRest

\* read_text(msg_path); when the file is gone the handler's rename raises
\* FileNotFoundError in turn, which leaves process_one
read_message(w) ==
    LET wr == workers[w]  m == wr.files[wr.i] IN
    /\ wr.pc = "read"
    /\ IF m \in inbox[wr.role]
       THEN /\ workers' = [workers EXCEPT ![w] = [wr EXCEPT !.pc = "done_check", !.msg = m]]
            /\ UNCHANGED alive
       ELSE /\ workers' = [workers EXCEPT ![w] = Dead(wr)]
            /\ alive' = alive \ {wr.pid}
    /\ UNCHANGED <<board, fsVars, nextPid, newIds, ghost>>
    /\ UNCHANGED workerRest

\* done_check passing over the sentinel
done_check_blind(w) ==
    LET wr == workers[w] IN
    /\ wr.pc = "done_check"
    /\ workers' = [workers EXCEPT ![w].pc = "lock_exists"]
    /\ UNCHANGED <<board, fsVars, osVars, ghost>>
    /\ UNCHANGED workerRest

\* if done_sentinel(sp, mid, role).exists()
done_check(w) ==
    LET wr == workers[w] IN
    /\ wr.pc = "done_check"
    /\ workers' = [workers EXCEPT ![w].pc =
                     IF key(wr) \in done THEN "archive_done" ELSE "lock_exists"]
    /\ UNCHANGED <<board, fsVars, osVars, ghost>>
    /\ UNCHANGED workerRest

\* msg_path.rename(archive_path(...)) of a message already done; return True
archive_done(w) ==
    LET wr == workers[w] IN
    /\ wr.pc = "archive_done"
    /\ IF wr.msg \in inbox[wr.role]
       THEN /\ inbox' = [inbox EXCEPT ![wr.role] = @ \ {wr.msg}]
            /\ archive' = [archive EXCEPT ![wr.role] = @ \cup {wr.msg}]
            /\ workers' = [workers EXCEPT ![w] = IdleWorker(wr.role, wr.pid)]
            /\ UNCHANGED alive
       ELSE /\ workers' = [workers EXCEPT ![w] = Dead(wr)]
            /\ alive' = alive \ {wr.pid}
            /\ UNCHANGED <<inbox, archive>>
    /\ UNCHANGED <<board, deadletter, done, plock, retries, receipts,
                   nextPid, newIds, ghost>>
    /\ UNCHANGED workerRest

\* if lock_dir.exists()
lock_exists(w) ==
    LET wr == workers[w] IN
    /\ wr.pc = "lock_exists"
    /\ workers' = [workers EXCEPT ![w].pc =
                     IF plock[key(wr)].dir THEN "lock_read_pid" ELSE "lock_mkdir"]
    /\ UNCHANGED <<board, fsVars, osVars, ghost>>
    /\ UNCHANGED workerRest

\* pid = _read_lock_pid(lock_dir): 0 when the pid file cannot be read
lock_read_pid(w) ==
    LET wr == workers[w] IN
    /\ wr.pc = "lock_read_pid"
    /\ workers' = [workers EXCEPT ![w].pc = "lock_age",
                                  ![w].lpid = IF plock[key(wr)].dir
                                              THEN plock[key(wr)].pid ELSE 0]
    /\ UNCHANGED <<board, fsVars, osVars, ghost>>
    /\ UNCHANGED workerRest

\* age_s = _lock_age_seconds(lock_dir) and the test: a lock held by a live
\* pid is skipped, any other is cleaned up
lock_age(w) ==
    LET wr == workers[w]
        stale_age == lock_is_old(plock[key(wr)].dir, plock[key(wr)].pid)
    IN
    /\ wr.pc = "lock_age"
    /\ workers' = [workers EXCEPT ![w] =
                     IF wr.lpid > 0 /\ pid_alive(wr.lpid) /\ ~stale_age
                     THEN Continue(wr)
                     ELSE [wr EXCEPT !.pc = "cleanup_exists", !.ret = "lock_mkdir"]]
    /\ UNCHANGED <<board, fsVars, osVars, ghost>>
    /\ UNCHANGED workerRest

\* os.mkdir(lock_dir); FileExistsError: continue
lock_mkdir(w) ==
    LET wr == workers[w] IN
    /\ wr.pc = "lock_mkdir"
    /\ IF plock[key(wr)].dir
       THEN /\ workers' = [workers EXCEPT ![w] = Continue(wr)]
            /\ UNCHANGED plock
       ELSE /\ plock' = [plock EXCEPT ![key(wr)] = [dir |-> TRUE, pid |-> 0]]
            /\ workers' = [workers EXCEPT ![w].pc = "lock_write_pid"]
    /\ UNCHANGED <<board, inbox, archive, deadletter, done, retries, receipts,
                   osVars, ghost>>
    /\ UNCHANGED workerRest

\* (lock_dir / "pid").write_text(pid); FileNotFoundError leaves process_one
lock_write_pid(w) ==
    LET wr == workers[w] IN
    /\ wr.pc = "lock_write_pid"
    /\ IF plock[key(wr)].dir
       THEN /\ plock' = [plock EXCEPT ![key(wr)].pid = wr.pid]
            /\ workers' = [workers EXCEPT ![w].pc = "claim"]
            /\ UNCHANGED alive
       ELSE /\ workers' = [workers EXCEPT ![w] = Dead(wr)]
            /\ alive' = alive \ {wr.pid}
            /\ UNCHANGED plock
    /\ UNCHANGED <<board, inbox, archive, deadletter, done, retries, receipts,
                   nextPid, newIds, ghost>>
    /\ UNCHANGED workerRest

\* the claim handling that keeps task_id when it goes on in message-only
\* mode
claim_message_task_kept(w) ==
    LET wr == workers[w]
        tid == wr.msg.task_id
        r == claim_task_mutate(board, tid, wr.role, wr.msg.id)
        blocked == r.reason \in {"owner_mismatch", "claimed_by_other", "deps_blocked"}
    IN
    /\ wr.pc = "claim"
    /\ IF tid = 0
       THEN /\ workers' = [workers EXCEPT ![w].pc = "load_retries"]
            /\ UNCHANGED board
       ELSE /\ board_call(r)
            /\ workers' = [workers EXCEPT ![w] =
                 IF r.ok
                 THEN [wr EXCEPT !.pc = "load_retries", !.task_id = tid,
                                 !.task_claimed = TRUE]
                 ELSE IF r.reason = "completed"
                 THEN [wr EXCEPT !.pc = "completed_done", !.task_id = tid]
                 ELSE IF blocked
                 THEN [wr EXCEPT !.pc = "cleanup_exists", !.ret = "continue"]
                 ELSE [wr EXCEPT !.pc = "load_retries", !.task_id = tid]]
    /\ UNCHANGED <<fsVars, osVars, ghost>>
    /\ UNCHANGED workerRest

\* the claim handling without the blocked branch: a refused claim that is
\* not "completed" goes on in message-only mode
claim_message_task_unblocked(w) ==
    LET wr == workers[w]
        tid == wr.msg.task_id
        r == claim_task_mutate(board, tid, wr.role, wr.msg.id)
    IN
    /\ wr.pc = "claim"
    /\ IF tid = 0
       THEN /\ workers' = [workers EXCEPT ![w].pc = "load_retries"]
            /\ UNCHANGED board
       ELSE /\ board_call(r)
            /\ workers' = [workers EXCEPT ![w] =
                 IF r.ok
                 THEN [wr EXCEPT !.pc = "load_retries", !.task_id = tid,
                                 !.task_claimed = TRUE]
                 ELSE IF r.reason = "completed"
                 THEN [wr EXCEPT !.pc = "completed_done", !.task_id = tid]
                 ELSE [wr EXCEPT !.pc = "load_retries", !.task_id = 0]]
    /\ UNCHANGED <<fsVars, osVars, ghost>>
    /\ UNCHANGED workerRest

\* the claim of the message's task: claim_task, and what process_one makes
\* of the answer (completed, blocked, message-only mode, or claimed)
claim_message_task(w) ==
    LET wr == workers[w]
        tid == wr.msg.task_id
        r == claim_task_mutate(board, tid, wr.role, wr.msg.id)
        blocked == r.reason \in {"owner_mismatch", "claimed_by_other", "deps_blocked"}
    IN
    /\ wr.pc = "claim"
    /\ IF tid = 0
       THEN /\ workers' = [workers EXCEPT ![w].pc = "load_retries"]
            /\ UNCHANGED board
       ELSE /\ board_call(r)
            /\ workers' = [workers EXCEPT ![w] =
                 IF r.ok
                 THEN [wr EXCEPT !.pc = "load_retries", !.task_id = tid,
                                 !.task_claimed = TRUE]
                 ELSE IF r.reason = "completed"
                 THEN [wr EXCEPT !.pc = "completed_done", !.task_id = tid]
                 ELSE IF blocked
                 THEN [wr EXCEPT !.pc = "cleanup_exists", !.ret = "continue"]
                 ELSE [wr EXCEPT !.pc = "load_retries", !.task_id = 0]]
    /\ UNCHANGED <<fsVars, osVars, ghost>>
    /\ UNCHANGED workerRest

\* reason == "completed": done_sentinel(...).write_text("ok")
completed_done(w) ==
    LET wr == workers[w] IN
    /\ wr.pc = "completed_done"
    /\ done' = done \cup {key(wr)}
    /\ workers' = [workers EXCEPT ![w].pc = "completed_archive"]
    /\ UNCHANGED <<board, inbox, archive, deadletter, plock, retries, receipts,
                   osVars, ghost>>
    /\ UNCHANGED workerRest

\* reason == "completed": msg_path.rename(archive_path(...)), then
\* _cleanup_lockdir and return True; a failed rename leaves process_one
completed_archive(w) ==
    LET wr == workers[w] IN
    /\ wr.pc = "completed_archive"
    /\ IF wr.msg \in inbox[wr.role]
       THEN /\ inbox' = [inbox EXCEPT ![wr.role] = @ \ {wr.msg}]
            /\ archive' = [archive EXCEPT ![wr.role] = @ \cup {wr.msg}]
            /\ workers' = [workers EXCEPT ![w].pc = "cleanup_exists", ![w].ret = "idle"]
            /\ UNCHANGED alive
       ELSE /\ workers' = [workers EXCEPT ![w] = Dead(wr)]
            /\ alive' = alive \ {wr.pid}
            /\ UNCHANGED <<inbox, archive>>
    /\ UNCHANGED <<board, deadletter, done, plock, retries, receipts,
                   nextPid, newIds, ghost>>
    /\ UNCHANGED workerRest

\* load_retries giving up one failure late: if n > 3
load_retries_late(w) ==
    LET wr == workers[w]  n == retries[key(wr)] IN
    /\ wr.pc = "load_retries"
    /\ workers' = [workers EXCEPT ![w].n = n,
                                  ![w].pc = IF n > MaxRetries THEN "deadletter_rename"
                                            ELSE "codex_exec"]
    /\ UNCHANGED <<board, fsVars, osVars, ghost>>
    /\ UNCHANGED workerRest

\* retries = load_json(retries_path); n = retries["count"]; if n >= 3
load_retries(w) ==
    LET wr == workers[w]  n == retries[key(wr)] IN
    /\ wr.pc = "load_retries"
    /\ workers' = [workers EXCEPT ![w].n = n,
                                  ![w].pc = IF n >= MaxRetries THEN "deadletter_rename"
                                            ELSE "codex_exec"]
    /\ UNCHANGED <<board, fsVars, osVars, ghost>>
    /\ UNCHANGED workerRest

\* n >= 3: msg_path.rename(deadletter_path(...)), outside any try
deadletter_rename(w) ==
    LET wr == workers[w] IN
    /\ wr.pc = "deadletter_rename"
    /\ IF wr.msg \in inbox[wr.role]
       THEN /\ inbox' = [inbox EXCEPT ![wr.role] = @ \ {wr.msg}]
            /\ deadletter' = [deadletter EXCEPT ![wr.role] = @ \cup {wr.msg}]
            /\ workers' = [workers EXCEPT ![w].pc = "deadletter_fail"]
            /\ UNCHANGED alive
       ELSE /\ workers' = [workers EXCEPT ![w] = Dead(wr)]
            /\ alive' = alive \ {wr.pid}
            /\ UNCHANGED <<inbox, deadletter>>
    /\ UNCHANGED <<board, archive, done, plock, retries, receipts,
                   nextPid, newIds, ghost>>
    /\ UNCHANGED workerRest

\* n >= 3: if task_id: mark_task_failed(..., terminal=True)
deadletter_fail(w) ==
    LET wr == workers[w] IN
    /\ wr.pc = "deadletter_fail"
    /\ IF wr.task_id # 0
       THEN board_call(mark_task_failed_mutate(board, wr.task_id, wr.role, Note, TRUE))
       ELSE UNCHANGED board
    /\ workers' = [workers EXCEPT ![w].pc = "deadletter_receipt"]
    /\ UNCHANGED <<fsVars, osVars, ghost>>
    /\ UNCHANGED workerRest

\* the dead-letter path returning without _cleanup_lockdir
deadletter_receipt_unreleased(w) ==
    LET wr == workers[w] IN
    /\ wr.pc = "deadletter_receipt"
    /\ receipts' = [receipts EXCEPT ![key(wr)] = Receipt("deadletter", 99, clock)]
    /\ workers' = [workers EXCEPT ![w] = IdleWorker(wr.role, wr.pid)]
    /\ UNCHANGED <<board, inbox, archive, deadletter, done, plock, retries,
                   osVars, ghost>>
    /\ UNCHANGED workerRest

\* n >= 3: write_receipt(status="deadletter"), then _cleanup_lockdir, return True
deadletter_receipt(w) ==
    LET wr == workers[w] IN
    /\ wr.pc = "deadletter_receipt"
    /\ receipts' = [receipts EXCEPT ![key(wr)] = Receipt("deadletter", 99, clock)]
    /\ workers' = [workers EXCEPT ![w].pc = "cleanup_exists", ![w].ret = "idle"]
    /\ UNCHANGED <<board, inbox, archive, deadletter, done, plock, retries,
                   osVars, ghost>>
    /\ UNCHANGED workerRest

\* codex_exec and what follows it inside the try: a non-zero rc raises
\* RuntimeError before the worktree is looked at; after rc 0, for a role
\* that may not write the repository, a changed path that the baseline
\* taken before the run does not hold raises RoleBoundaryError.  The run
\* of a role that may write changes paths or not; nothing looks at them.
codex_exec(w) ==
    LET wr == workers[w] IN
    /\ wr.pc = "codex_exec"
    /\ \E codex_rc \in {0, 1}, changed \in BOOLEAN :
         LET new_paths == changed /\ ~role_allows_repo_writes(wr.role) IN
         /\ workers' = [workers EXCEPT ![w].rc = codex_rc,
                                       ![w].new_paths = new_paths,
                                       ![w].pc =
                          IF codex_rc # 0 THEN "retry_save"
                          ELSE IF new_paths THEN "boundary_fail"
                          ELSE "write_receipt"]
         /\ ghost' = [ghost EXCEPT
                         !.runs[key(wr)] = @ + 1,
                         !.wrote[key(wr)] = @ \/ new_paths,
                         !.successes[key(wr)] = IF codex_rc = 0 /\ ~new_paths
                                                THEN @ + 1 ELSE @]
    /\ UNCHANGED <<board, fsVars, osVars>>
    /\ UNCHANGED workerRest

\* write_receipt(status="done")
write_receipt(w) ==
    LET wr == workers[w] IN
    /\ wr.pc = "write_receipt"
    /\ receipts' = [receipts EXCEPT ![key(wr)] = Receipt("done", wr.rc, clock)]
    /\ workers' = [workers EXCEPT ![w].pc = "complete"]
    /\ UNCHANGED <<board, inbox, archive, deadletter, done, plock, retries,
                   osVars, ghost>>
    /\ UNCHANGED workerRest

\* if task_id and task_claimed: complete_task(...), then dispatch_ready_tasks
complete_claimed(w) ==
    LET wr == workers[w] IN
    /\ wr.pc = "complete"
    /\ IF wr.task_id # 0 /\ wr.task_claimed
       THEN /\ board_call(complete_task_mutate(board, wr.task_id, wr.role, wr.msg.id))
            /\ workers' = [workers EXCEPT ![w].pc = "dispatch_list", ![w].ret = "write_done",
                                          ![w].dfrom = "system", ![w].dto = ""]
       ELSE /\ workers' = [workers EXCEPT ![w].pc = "write_done"]
            /\ UNCHANGED board
    /\ UNCHANGED <<fsVars, osVars, ghost>>
    /\ UNCHANGED workerRest

\* done_sentinel(...).write_text("ok")
write_done(w) ==
    LET wr == workers[w] IN
    /\ wr.pc = "write_done"
    /\ done' = done \cup {key(wr)}
    /\ workers' = [workers EXCEPT ![w].pc = "archive", ![w].ret = ""]
    /\ UNCHANGED <<board, inbox, archive, deadletter, plock, retries, receipts,
                   osVars, ghost>>
    /\ UNCHANGED workerRest

\* archive_message copying the file instead of renaming it
archive_message_copy(w) ==
    LET wr == workers[w] IN
    /\ wr.pc = "archive"
    /\ archive' = [archive EXCEPT ![wr.role] = @ \cup {wr.msg}]
    /\ workers' = [workers EXCEPT ![w].pc = "cleanup_exists", ![w].ret = "idle"]
    /\ UNCHANGED <<board, inbox, deadletter, done, plock, retries, receipts, osVars, ghost>>
    /\ UNCHANGED workerRest

\* msg_path.rename(archive_path(...)); return True through the finally.
\* A failed rename is caught by except Exception: the retry path.
archive_message(w) ==
    LET wr == workers[w] IN
    /\ wr.pc = "archive"
    /\ IF wr.msg \in inbox[wr.role]
       THEN /\ inbox' = [inbox EXCEPT ![wr.role] = @ \ {wr.msg}]
            /\ archive' = [archive EXCEPT ![wr.role] = @ \cup {wr.msg}]
            /\ workers' = [workers EXCEPT ![w].pc = "cleanup_exists", ![w].ret = "idle"]
       ELSE /\ workers' = [workers EXCEPT ![w].pc = "retry_save"]
            /\ UNCHANGED <<inbox, archive>>
    /\ UNCHANGED <<board, deadletter, done, plock, retries, receipts, osVars, ghost>>
    /\ UNCHANGED workerRest

\* except Exception: n += 1; save_json(retries_path, retries)
retry_save(w) ==
    LET wr == workers[w] IN
    /\ wr.pc = "retry_save"
    /\ retries' = [retries EXCEPT ![key(wr)] = wr.n + 1]
    /\ workers' = [workers EXCEPT ![w].pc = "retry_fail", ![w].n = wr.n + 1]
    /\ UNCHANGED <<board, inbox, archive, deadletter, done, plock, receipts,
                   osVars, ghost>>
    /\ UNCHANGED workerRest

\* except Exception: if task_id and task_claimed: mark_task_failed(terminal=False)
retry_fail(w) ==
    LET wr == workers[w] IN
    /\ wr.pc = "retry_fail"
    /\ IF wr.task_id # 0 /\ wr.task_claimed
       THEN board_call(mark_task_failed_mutate(board, wr.task_id, wr.role, Note, FALSE))
       ELSE UNCHANGED board
    /\ workers' = [workers EXCEPT ![w].pc = "retry_receipt"]
    /\ UNCHANGED <<fsVars, osVars, ghost>>
    /\ UNCHANGED workerRest

\* except Exception: write_receipt(status="retry"); return True through the finally
retry_receipt(w) ==
    LET wr == workers[w] IN
    /\ wr.pc = "retry_receipt"
    /\ receipts' = [receipts EXCEPT ![key(wr)] = Receipt("retry", wr.rc, clock)]
    /\ workers' = [workers EXCEPT ![w].pc = "cleanup_exists", ![w].ret = "idle"]
    /\ UNCHANGED <<board, inbox, archive, deadletter, done, plock, retries,
                   osVars, ghost>>
    /\ UNCHANGED workerRest

\* except RoleBoundaryError: if task_id and task_claimed: mark_task_failed(terminal=True)
boundary_fail(w) ==
    LET wr == workers[w] IN
    /\ wr.pc = "boundary_fail"
    /\ IF wr.task_id # 0 /\ wr.task_claimed
       THEN board_call(mark_task_failed_mutate(board, wr.task_id, wr.role, Note, TRUE))
       ELSE UNCHANGED board
    /\ workers' = [workers EXCEPT ![w].pc = "boundary_receipt"]
    /\ UNCHANGED <<fsVars, osVars, ghost>>
    /\ UNCHANGED workerRest

\* except RoleBoundaryError: write_receipt(status="deadletter")
boundary_receipt(w) ==
    LET wr == workers[w] IN
    /\ wr.pc = "boundary_receipt"
    /\ receipts' = [receipts EXCEPT ![key(wr)] = Receipt("deadletter", 97, clock)]
    /\ workers' = [workers EXCEPT ![w].pc = "boundary_rename"]
    /\ UNCHANGED <<board, inbox, archive, deadletter, done, plock, retries,
                   osVars, ghost>>
    /\ UNCHANGED workerRest

\* except RoleBoundaryError: msg_path.rename(deadletter_path(...)), errors
\* passed over; return True through the finally
boundary_rename(w) ==
    LET wr == workers[w] IN
    /\ wr.pc = "boundary_rename"
    /\ IF wr.msg \in inbox[wr.role]
       THEN /\ inbox' = [inbox EXCEPT ![wr.role] = @ \ {wr.msg}]
            /\ deadletter' = [deadletter EXCEPT ![wr.role] = @ \cup {wr.msg}]
       ELSE UNCHANGED <<inbox, deadletter>>
    /\ workers' = [workers EXCEPT ![w].pc = "cleanup_exists", ![w].ret = "idle"]
    /\ UNCHANGED <<board, archive, done, plock, retries, receipts, osVars, ghost>>
    /\ UNCHANGED workerRest

\* dispatch_ready_tasks: for task in list_dispatchable_tasks(owner=owner)
dispatch_list(w) ==
    LET wr == workers[w]
        found == list_dispatchable_tasks(board, wr.dto)
    IN
    /\ wr.pc = "dispatch_list"
    /\ workers' = [workers EXCEPT ![w].pc = "dispatch_next", ![w].sent = 0,
                     ![w].todo = [k \in 1..Len(found) |->
                                    [id |-> board.tasks[found[k]].id,
                                     owner |-> board.tasks[found[k]].owner]]]
    /\ UNCHANGED <<board, fsVars, osVars, ghost>>
    /\ UNCHANGED workerRest

\* the daemon or process_one after dispatch_ready_tasks returned
dispatch_return(wr) ==
    IF wr.ret \in {"write_done", "bootstrap_receipt"}
    THEN [wr EXCEPT !.pc = wr.ret, !.todo = <<>>, !.sent = 0, !.dmsg = NoMsg,
                    !.dfrom = "", !.dto = ""]
    ELSE IdleWorker(wr.role, wr.pid)

\* dispatch_ready_tasks, head of the loop: stop at DISPATCH_MAX_PER_SCAN, pass
\* over an owner that is no role, else mid = new_id(); enqueue_bus_message(...)
dispatch_enqueue_in(w, role_set) ==
    LET wr == workers[w] IN
    /\ wr.pc = "dispatch_next"
    /\ IF wr.todo = <<>> \/ wr.sent >= DISPATCH_MAX_PER_SCAN
       THEN /\ workers' = [workers EXCEPT ![w] = dispatch_return(wr)]
            /\ UNCHANGED <<inbox, newIds>>
       ELSE LET t == Head(wr.todo) IN
            IF t.owner \notin role_set
            THEN /\ workers' = [workers EXCEPT ![w].todo = Tail(wr.todo)]
                 /\ UNCHANGED <<inbox, newIds>>
            ELSE /\ newIds < MaxNewIds
                 /\ newIds' = newIds + 1
                 /\ inbox' = [inbox EXCEPT ![t.owner] = @ \cup {Msg(NewId(newIds + 1), t.id)}]
                 /\ workers' = [workers EXCEPT ![w].pc = "dispatch_set",
                                               ![w].dmsg = Msg(NewId(newIds + 1), t.id)]
    /\ UNCHANGED <<board, archive, deadletter, done, plock, retries, receipts,
                   alive, nextPid, ghost>>
    /\ UNCHANGED workerRest

\* dispatch_ready_tasks in a session of the roles builder-a and reviewer
dispatch_enqueue(w) == dispatch_enqueue_in(w, Roles)

\* dispatch_ready_tasks: set_dispatch(task_id, from_role, to_role, intent, mid)
dispatch_set(w) ==
    LET wr == workers[w]
        t == Head(wr.todo)
        r == set_dispatch_mutate(board, t.id, wr.dfrom, t.owner, "implement", wr.dmsg.id)
    IN
    /\ wr.pc = "dispatch_set"
    /\ board_call(r)
    /\ workers' = [workers EXCEPT ![w] =
                     IF r.ok
                     THEN [wr EXCEPT !.pc = "dispatch_next", !.todo = Tail(wr.todo),
                                     !.sent = @ + 1, !.dmsg = NoMsg]
                     ELSE [wr EXCEPT !.pc = "dispatch_unlink"]]
    /\ UNCHANGED <<fsVars, osVars, ghost>>
    /\ UNCHANGED workerRest

\* dispatch_ready_tasks: if not ok: msg_path.unlink(missing_ok=True); continue
dispatch_unlink(w) ==
    LET wr == workers[w]  t == Head(wr.todo) IN
    /\ wr.pc = "dispatch_unlink"
    /\ inbox' = [inbox EXCEPT ![t.owner] = @ \ {wr.dmsg}]
    /\ workers' = [workers EXCEPT ![w].pc = "dispatch_next", ![w].todo = Tail(wr.todo),
                                  ![w].dmsg = NoMsg]
    /\ UNCHANGED <<board, archive, deadletter, done, plock, retries, receipts,
                   osVars, ghost>>
    /\ UNCHANGED workerRest

\* daemon: the periodic self-dispatch of a role other than lead, when its
\* inbox holds no message
daemon_dispatch(w) ==
    LET wr == workers[w] IN
    /\ wr.pc = "idle"
    /\ wr.role # "lead"
    /\ inbox[wr.role] = {}
    /\ workers' = [workers EXCEPT ![w].pc = "dispatch_list", ![w].ret = "idle",
                                  ![w].dfrom = wr.role, ![w].dto = wr.role]
    /\ UNCHANGED <<board, fsVars, osVars, ghost>>
    /\ UNCHANGED workerRest

\* where _cleanup_lockdir(lock_dir) returns to
lockdir_return(wr) ==
    IF wr.ret = "lock_mkdir" THEN [wr EXCEPT !.pc = "lock_mkdir", !.ret = ""]
    ELSE IF wr.ret = "continue" THEN Continue(wr)
    ELSE IdleWorker(wr.role, wr.pid)

\* _cleanup_lockdir: if not lock_dir.exists(): return
lockdir_exists(w) ==
    LET wr == workers[w] IN
    /\ wr.pc = "cleanup_exists"
    /\ workers' = [workers EXCEPT ![w] =
                     IF plock[key(wr)].dir THEN [wr EXCEPT !.pc = "cleanup_unlink"]
                     ELSE lockdir_return(wr)]
    /\ UNCHANGED <<board, fsVars, osVars, ghost>>
    /\ UNCHANGED workerRest

\* _cleanup_lockdir: lstat the pid file and unlink it
lockdir_unlink(w) ==
    LET wr == workers[w] IN
    /\ wr.pc = "cleanup_unlink"
    /\ plock' = [plock EXCEPT ![key(wr)].pid = 0]
    /\ workers' = [workers EXCEPT ![w].pc = "cleanup_rmdir"]
    /\ UNCHANGED <<board, inbox, archive, deadletter, done, retries, receipts,
                   osVars, ghost>>
    /\ UNCHANGED workerRest

\* _cleanup_lockdir: os.rmdir, which fails on a missing or non-empty directory
lockdir_rmdir(w) ==
    LET wr == workers[w]  l == plock[key(wr)] IN
    /\ wr.pc = "cleanup_rmdir"
    /\ IF l.dir /\ l.pid = 0
       THEN /\ plock' = [plock EXCEPT ![key(wr)] = NoLock]
            /\ workers' = [workers EXCEPT ![w] = lockdir_return(wr)]
       ELSE /\ workers' = [workers EXCEPT ![w].pc = "cleanup_rename"]
            /\ UNCHANGED plock
    /\ UNCHANGED <<board, inbox, archive, deadletter, done, retries, receipts,
                   osVars, ghost>>
    /\ UNCHANGED workerRest

\* _cleanup_lockdir: os.rename(lock_dir, _stale_lockdirs/...), pid file and all
lockdir_rename(w) ==
    LET wr == workers[w] IN
    /\ wr.pc = "cleanup_rename"
    /\ IF plock[key(wr)].dir
       THEN /\ plock' = [plock EXCEPT ![key(wr)] = NoLock]
            /\ workers' = [workers EXCEPT ![w] = lockdir_return(wr)]
       ELSE /\ workers' = [workers EXCEPT ![w].pc = "cleanup_rm"]
            /\ UNCHANGED plock
    /\ UNCHANGED <<board, inbox, archive, deadletter, done, retries, receipts,
                   osVars, ghost>>
    /\ UNCHANGED workerRest

\* _cleanup_lockdir: /bin/rm -rf lock_dir
lockdir_rm(w) ==
    LET wr == workers[w] IN
    /\ wr.pc = "cleanup_rm"
    /\ plock' = [plock EXCEPT ![key(wr)] = NoLock]
    /\ workers' = [workers EXCEPT ![w] = lockdir_return(wr)]
    /\ UNCHANGED <<board, inbox, archive, deadletter, done, retries, receipts,
                   osVars, ghost>>
    /\ UNCHANGED workerRest

\* the daemon process dies at a step of process_one (kill -9, power loss)
Crash(w) ==
    LET wr == workers[w] IN
    /\ wr.pc \notin {"idle", "crashed"}
    /\ workers' = [workers EXCEPT ![w] = Dead(wr)]
    /\ alive' = alive \ {wr.pid}
    /\ UNCHANGED <<board, fsVars, nextPid, newIds, ghost>>
    /\ UNCHANGED workerRest

\* the daemon of the role is started again, as a new process
Restart(w) ==
    LET wr == workers[w] IN
    /\ wr.pc = "crashed"
    /\ ghost.restarts < MaxRestarts
    /\ workers' = [workers EXCEPT ![w] = IdleWorker(wr.role, nextPid)]
    /\ alive' = alive \cup {nextPid}
    /\ nextPid' = nextPid + 1
    /\ ghost' = [ghost EXCEPT !.restarts = @ + 1]
    /\ UNCHANGED <<board, fsVars, newIds>>
    /\ UNCHANGED workerRest

\* the board after the lead added task 1 for builder-a, dispatched it with
\* message m1, and added task 2 for the reviewer, which depends on task 1
WorkerBoard ==
    LET b1 == add_task_mutate(default_board, 1, "builder-a", <<>>, "lead", 0).board
        b2 == set_dispatch_mutate(b1, 1, "lead", "builder-a", "implement", M1).board
    IN add_task_mutate(b2, 2, "reviewer", <<1>>, "lead", 0).board

\* m1 lies in the inbox of builder-a; the reviewer may have been sent a
\* message m2 that names task 1 too.  Worker 1 is a daemon of builder-a,
\* worker 2 one of builder-a or of reviewer.
WorkerInit ==
    /\ board = WorkerBoard
    /\ clock = 0
    /\ last = NoCall
    /\ InitIdleLock
    /\ \E stray \in {{}, {Msg(M2, 1)}} :
          inbox = [r \in Roles |-> IF r = "builder-a" THEN {Msg(M1, 1)} ELSE stray]
    /\ archive = [r \in Roles |-> {}]
    /\ deadletter = [r \in Roles |-> {}]
    /\ done = {}
    /\ plock = [k \in Keys |-> NoLock]
    /\ retries = [k \in Keys |-> 0]
    /\ receipts = [k \in Keys |-> NoReceipt]
    /\ \E r \in Roles :
          workers = [w \in Workers |-> IdleWorker(IF w = 1 THEN "builder-a" ELSE r, w)]
    /\ alive = Workers
    /\ nextPid = NumWorkers + 1
    /\ newIds = 0
    /\ ghost = NoRuns /\ router = NoRouter /\ supervisor = NoSupervisor /\ serial = NoSerial

WorkerNext ==
    \E w \in Workers :
        \/ process_one(w)
        \/ read_message(w)
        \/ done_check(w)
        \/ archive_done(w)
        \/ lock_exists(w)
        \/ lock_read_pid(w)
        \/ lock_age(w)
        \/ lock_mkdir(w)
        \/ lock_write_pid(w)
        \/ claim_message_task(w)
        \/ completed_done(w)
        \/ completed_archive(w)
        \/ load_retries(w)
        \/ deadletter_rename(w)
        \/ deadletter_fail(w)
        \/ deadletter_receipt(w)
        \/ codex_exec(w)
        \/ write_receipt(w)
        \/ complete_claimed(w)
        \/ write_done(w)
        \/ archive_message(w)
        \/ retry_save(w)
        \/ retry_fail(w)
        \/ retry_receipt(w)
        \/ boundary_fail(w)
        \/ boundary_receipt(w)
        \/ boundary_rename(w)
        \/ dispatch_list(w)
        \/ dispatch_enqueue(w)
        \/ dispatch_set(w)
        \/ dispatch_unlink(w)
        \/ daemon_dispatch(w)
        \/ lockdir_exists(w)
        \/ lockdir_unlink(w)
        \/ lockdir_rmdir(w)
        \/ lockdir_rename(w)
        \/ lockdir_rm(w)

WorkerSpec == WorkerInit /\ [][WorkerNext]_vars

(* SkipSpec: the daemons of WorkerSpec, one of builder-a and one of the    *)
(* reviewer, whose inbox holds two messages it may not yet work on: m1.md  *)
(* names task 2, which waits for task 1, and m2.md names task 1, which is  *)
(* builder-a's.  Left out of its steps are those that need two daemons    *)
(* of one role: a processing lock or a done sentinel found in place, a     *)
(* lock directory that rmdir cannot remove, a refused set_dispatch.        *)

SkipInit ==
    /\ board = WorkerBoard
    /\ clock = 0
    /\ last = NoCall
    /\ InitIdleLock
    /\ inbox = [r \in Roles |-> IF r = "builder-a" THEN {Msg(M1, 1)}
                                ELSE {Msg(M1, 2), Msg(M2, 1)}]
    /\ archive = [r \in Roles |-> {}]
    /\ deadletter = [r \in Roles |-> {}]
    /\ done = {}
    /\ plock = [k \in Keys |-> NoLock]
    /\ retries = [k \in Keys |-> 0]
    /\ receipts = [k \in Keys |-> NoReceipt]
    /\ workers = [w \in Workers |-> IdleWorker(IF w = 1 THEN "builder-a" ELSE "reviewer", w)]
    /\ alive = Workers
    /\ nextPid = NumWorkers + 1
    /\ newIds = 0
    /\ ghost = NoRuns /\ router = NoRouter /\ supervisor = NoSupervisor /\ serial = NoSerial

SkipNext ==
    \E w \in Workers :
        \/ process_one(w)
        \/ read_message(w)
        \/ done_check(w)
        \/ lock_exists(w)
        \/ lock_mkdir(w)
        \/ lock_write_pid(w)
        \/ claim_message_task(w)
        \/ completed_done(w)
        \/ completed_archive(w)
        \/ load_retries(w)
        \/ deadletter_rename(w)
        \/ deadletter_fail(w)
        \/ deadletter_receipt(w)
        \/ codex_exec(w)
        \/ write_receipt(w)
        \/ complete_claimed(w)
        \/ write_done(w)
        \/ archive_message(w)
        \/ retry_save(w)
        \/ retry_fail(w)
        \/ retry_receipt(w)
        \/ boundary_fail(w)
        \/ boundary_receipt(w)
        \/ boundary_rename(w)
        \/ dispatch_list(w)
        \/ dispatch_enqueue(w)
        \/ dispatch_set(w)
        \/ daemon_dispatch(w)
        \/ lockdir_exists(w)
        \/ lockdir_unlink(w)
        \/ lockdir_rmdir(w)

SkipSpec == SkipInit /\ [][SkipNext]_vars

(* CallerSpec: the daemons of WorkerSpec, one of builder-a with message m1 *)
(* and one of the reviewer, next to a caller of the task board from        *)
(* outside: somebody runs "tasks.py fail" once, at any moment.  Left out   *)
(* of the steps are those a role with one daemon never comes to.           *)

\* tasks.py fail --task T --role R [--terminal]: cmd_fail, one whole
\* mark_task_failed call
cmd_fail ==
    /\ last = NoCall
    /\ \E task_id \in TaskIds, terminal \in BOOLEAN :
         LET r == mark_task_failed_mutate(board, task_id, "lead", Note, terminal) IN
         /\ board_call(r)
         /\ last' = Call("mark_task_failed", task_id, "lead", EmptyText, terminal, r)
    /\ UNCHANGED <<clock, lockVars, workerVars>>

CallerInit ==
    /\ board = WorkerBoard
    /\ clock = 0
    /\ last = NoCall
    /\ InitIdleLock
    /\ inbox = [r \in Roles |-> IF r = "builder-a" THEN {Msg(M1, 1)} ELSE {}]
    /\ archive = [r \in Roles |-> {}]
    /\ deadletter = [r \in Roles |-> {}]
    /\ done = {}
    /\ plock = [k \in Keys |-> NoLock]
    /\ retries = [k \in Keys |-> 0]
    /\ receipts = [k \in Keys |-> NoReceipt]
    /\ workers = [w \in Workers |-> IdleWorker(IF w = 1 THEN "builder-a" ELSE "reviewer", w)]
    /\ alive = Workers
    /\ nextPid = NumWorkers + 1
    /\ newIds = 0
    /\ ghost = NoRuns /\ router = NoRouter /\ supervisor = NoSupervisor /\ serial = NoSerial

CallerNext ==
    \/ cmd_fail
    \/ \E w \in Workers :
        \/ process_one(w)
        \/ read_message(w)
        \/ done_check(w)
        \/ lock_exists(w)
        \/ lock_mkdir(w)
        \/ lock_write_pid(w)
        \/ claim_message_task(w)
        \/ completed_done(w)
        \/ completed_archive(w)
        \/ load_retries(w)
        \/ deadletter_rename(w)
        \/ deadletter_fail(w)
        \/ deadletter_receipt(w)
        \/ codex_exec(w)
        \/ write_receipt(w)
        \/ complete_claimed(w)
        \/ write_done(w)
        \/ archive_message(w)
        \/ retry_save(w)
        \/ retry_fail(w)
        \/ retry_receipt(w)
        \/ boundary_fail(w)
        \/ boundary_receipt(w)
        \/ boundary_rename(w)
        \/ dispatch_list(w)
        \/ dispatch_enqueue(w)
        \/ dispatch_set(w)
        \/ daemon_dispatch(w)
        \/ lockdir_exists(w)
        \/ lockdir_unlink(w)
        \/ lockdir_rmdir(w)

CallerSpec == CallerInit /\ [][CallerNext]_vars

(* RestartSpec: one daemon of builder-a with message m1, which may crash   *)
(* at any step of process_one and is started again.  Left out of its       *)
(* steps are those a single builder daemon never comes to: the role        *)
(* boundary, a refused set_dispatch, a lock directory that rmdir cannot    *)
(* remove.                                                                 *)
RestartWorkers == {1}

RestartInit ==
    /\ board = WorkerBoard
    /\ clock = 0
    /\ last = NoCall
    /\ InitIdleLock
    /\ inbox = [r \in Roles |-> IF r = "builder-a" THEN {Msg(M1, 1)} ELSE {}]
    /\ archive = [r \in Roles |-> {}]
    /\ deadletter = [r \in Roles |-> {}]
    /\ done = {}
    /\ plock = [k \in Keys |-> NoLock]
    /\ retries = [k \in Keys |-> 0]
    /\ receipts = [k \in Keys |-> NoReceipt]
    /\ workers = [w \in RestartWorkers |-> IdleWorker("builder-a", w)]
    /\ alive = RestartWorkers
    /\ nextPid = 2
    /\ newIds = 0
    /\ ghost = NoRuns /\ router = NoRouter /\ supervisor = NoSupervisor /\ serial = NoSerial

RestartNext ==
    \E w \in RestartWorkers :
        \/ process_one(w)
        \/ read_message(w)
        \/ done_check(w)
        \/ archive_done(w)
        \/ lock_exists(w)
        \/ lock_read_pid(w)
        \/ lock_age(w)
        \/ lock_mkdir(w)
        \/ lock_write_pid(w)
        \/ claim_message_task(w)
        \/ completed_done(w)
        \/ completed_archive(w)
        \/ load_retries(w)
        \/ deadletter_rename(w)
        \/ deadletter_fail(w)
        \/ deadletter_receipt(w)
        \/ codex_exec(w)
        \/ write_receipt(w)
        \/ complete_claimed(w)
        \/ write_done(w)
        \/ archive_message(w)
        \/ retry_save(w)
        \/ retry_fail(w)
        \/ retry_receipt(w)
        \/ dispatch_list(w)
        \/ dispatch_enqueue(w)
        \/ dispatch_set(w)
        \/ daemon_dispatch(w)
        \/ lockdir_exists(w)
        \/ lockdir_unlink(w)
        \/ lockdir_rmdir(w)
        \/ Crash(w)
        \/ Restart(w)

RestartSpec == RestartInit /\ [][RestartNext]_vars

(* RecoverySpec: what crashed processes left behind, and who comes next.   *)
(* The task-board lock directory and the processing lock directory of m1   *)
(* both exist, each with no readable pid file (missing, empty or not a     *)
(* number: _read_lock_pid gives 0), with the pid of a dead process, or     *)
(* older than the stale threshold under the pid of a live process.  One    *)
(* process calls claim_task through _update_board; one daemon of           *)
(* builder-a finds m1, a message that names no task, in its inbox.  With   *)
(* nobody holding a lock, DirLock never sleeps and rmdir never fails, so   *)
(* those steps are left out.                                               *)
RecoveryProcs == {1}
RecoveryWorkers == {1}
LeftBehind == {0, DeadPid, StrayPid}
RecoveryKey == <<M1, "builder-a">>

RecoveryInit ==
    /\ board = add_task_mutate(default_board, LockTask, "", <<>>, "lead", 0).board
    /\ clock = 0
    /\ last = NoCall
    /\ lockDir = TRUE
    /\ lockPid \in LeftBehind
    /\ procs = [p \in RecoveryProcs |-> Idle]
    /\ inbox = [r \in Roles |-> IF r = "builder-a" THEN {Msg(M1, 0)} ELSE {}]
    /\ archive = [r \in Roles |-> {}]
    /\ deadletter = [r \in Roles |-> {}]
    /\ done = {}
    /\ \E pid \in LeftBehind :
          plock = [k \in Keys |-> IF k = RecoveryKey THEN [dir |-> TRUE, pid |-> pid]
                                  ELSE NoLock]
    /\ retries = [k \in Keys |-> 0]
    /\ receipts = [k \in Keys |-> NoReceipt]
    /\ workers = [w \in RecoveryWorkers |-> IdleWorker("builder-a", NumProcs + w)]
    /\ alive = RecoveryProcs \cup {NumProcs + w : w \in RecoveryWorkers} \cup {StrayPid}
    /\ nextPid = StrayPid + 1
    /\ newIds = 0
    /\ ghost = NoRuns /\ router = NoRouter /\ supervisor = NoSupervisor /\ serial = NoSerial

RecoveryLockNext ==
    \E p \in RecoveryProcs :
        \/ update_board_enter(p) /\ UNCHANGED idleRest
        \/ DirLock_mkdir(p) /\ UNCHANGED idleRest
        \/ DirLock_write_pid(p) /\ UNCHANGED idleRest
        \/ read_lock_pid(p) /\ UNCHANGED idleRest
        \/ lock_age_seconds(p) /\ UNCHANGED idleRest
        \/ cleanup_exists(p) /\ UNCHANGED idleRest
        \/ cleanup_unlink(p) /\ UNCHANGED idleRest
        \/ cleanup_rmdir(p) /\ UNCHANGED idleRest
        \/ update_board_read(p) /\ UNCHANGED idleRest
        \/ update_board_write(p) /\ UNCHANGED idleRest

RecoveryWorkerNext ==
    \E w \in RecoveryWorkers :
        \/ process_one(w)
        \/ read_message(w)
        \/ done_check(w)
        \/ lock_exists(w)
        \/ lock_read_pid(w)
        \/ lock_age(w)
        \/ lock_mkdir(w)
        \/ lock_write_pid(w)
        \/ claim_message_task(w)
        \/ load_retries(w)
        \/ deadletter_rename(w)
        \/ deadletter_fail(w)
        \/ deadletter_receipt(w)
        \/ codex_exec(w)
        \/ write_receipt(w)
        \/ complete_claimed(w)
        \/ write_done(w)
        \/ archive_message(w)
        \/ retry_save(w)
        \/ retry_fail(w)
        \/ retry_receipt(w)
        \/ dispatch_list(w)
        \/ dispatch_enqueue(w)
        \/ daemon_dispatch(w)
        \/ lockdir_exists(w)
        \/ lockdir_unlink(w)
        \/ lockdir_rmdir(w)

RecoveryNext == RecoveryLockNext \/ RecoveryWorkerNext

\* a process that is running takes its next step
RecoverySpec ==
    /\ RecoveryInit /\ [][RecoveryNext]_vars
    /\ WF_vars(RecoveryLockNext) /\ WF_vars(RecoveryWorkerNext)

---------------------------------------------------------------------------
(* router.py: process_receipt, one file-system step per step, next to the  *)
(* workers' write_receipt.  Path.write_text opens the receipt with         *)
(* truncation and writes the text afterwards, so the file is empty in      *)
(* between.  The worker specifications write a receipt in one step: no     *)
(* process reads the outbox there.  Receipts hold no ::bus-send directive. *)

\* list_roles: the directories under roles/
RouterRoles == Roles \cup {"lead"}

\* the receipt files followed, one per behaviour
RouterFiles == {<<M1, "builder-a">>, <<M2, "reviewer">>, <<NewId(1), "builder-a">>,
                <<M1, "lead">>}

\* the from: line of each message, which write_receipt copies to request_from
request_from(k) ==
    IF k[1] = M1 THEN "lead" ELSE IF k[1] = M2 THEN "builder-a" ELSE "router"

MaxWrites == 3      \* receipts written into one file

\* the (status, codex_rc) pairs process_one passes to write_receipt
ReceiptArgs == {<<"retry", 1>>, <<"done", 0>>, <<"deadletter", 99>>, <<"deadletter", 97>>}

\* a receipt file opened for writing and not yet written: empty text, in
\* which parse_frontmatter finds no front matter (status "unknown")
EmptyFile == Receipt("unknown", 0, 0)

\* sha256_text: the hex digest, one text per content
sha256_text(raw) ==
    IF raw = EmptyFile THEN <<"#">>
    ELSE <<"#", raw.status, ToString(raw.codex_rc), ToString(raw.finished_at),
           ToString(raw.last_msg)>>

\* ROLE_ORDER; list_roles returns the existing roles in this order
ROLE_ORDER == <<"lead", "builder-a", "builder-b", "reviewer", "tester">>
list_roles == SelectSeq(ROLE_ORDER, LAMBDA r : r \in RouterRoles)

\* a ::bus-send directive as parse_kv_block returns it: the parts of its
\* to= expression (split at commas and blanks), its intent and its message
Directive(to, intent, message) == [to |-> to, intent |-> intent, message |-> message]

\* str.lower() on the words that occur
lower(w) == IF w = "ALL" THEN "all" ELSE IF w = "Review" THEN "review" ELSE w

\* the mutant of allowed_intent: every role may send every intent
allowed_intent_any(sender_role, intent) == lower(intent) # ""

\* allowed_intent
allowed_intent(sender_role, intent) ==
    IF lower(intent) = "" THEN FALSE
    ELSE IF sender_role = "lead" THEN TRUE
    ELSE lower(intent) \in {"question", "review", "test", "fix", "info", "alert"}

\* out.append(r) unless r is in out
append_new(out, r) == IF \E i \in DOMAIN out : out[i] = r THEN out ELSE Append(out, r)

RECURSIVE append_others(_, _, _)
append_others(out, roles, sender_role) ==
    IF roles = <<>> THEN out
    ELSE append_others(IF Head(roles) # sender_role THEN append_new(out, Head(roles)) ELSE out,
                       Tail(roles), sender_role)

\* parse_target_roles, from the parts of to_expr on
RECURSIVE parse_target_roles(_, _, _)
parse_target_roles(out, parts, sender_role) ==
    IF parts = <<>> THEN out
    ELSE LET p == Head(parts)
             next == IF lower(p) = "all" THEN append_others(out, list_roles, sender_role)
                     ELSE IF p \in RouterRoles THEN append_new(out, p)
                     ELSE out
         IN  parse_target_roles(next, Tail(parts), sender_role)

\* the mutant of receipt_intent: every forward is a plain receipt
receipt_intent_plain(status) == "receipt"

\* receipt_intent
receipt_intent(status) == IF status \in {"retry", "deadletter"} THEN "alert" ELSE "receipt"

\* an inbox file written by enqueue_bus_message: its front matter, what its
\* body is about (the receipt file and content; for a directive its place
\* in the receipt) and which text it carries
BusMessage(k, raw, to, from, intent, risk, body, of) ==
    [file |-> k, raw |-> raw, to |-> to, from |-> from, intent |-> intent, risk |-> risk,
     body |-> body, of |-> of]

\* the forward of a receipt
Forwarded(k, raw, to) ==
    BusMessage(k, raw, to, "router", receipt_intent(raw.status),
               IF receipt_intent(raw.status) = "alert" THEN "medium" ELSE "low", "receipt", 0)

\* dispatch_from_receipt: the inbox files written for directives i.. of the receipt
RECURSIVE dispatch_from_receipt(_, _, _, _)
dispatch_from_receipt(k, raw, worker_role, i) ==
    IF i > Len(raw.last_msg) THEN <<>>
    ELSE LET d == raw.last_msg[i]
             alert(body) == IF "lead" \in RouterRoles
                            THEN <<BusMessage(k, raw, "lead", "router", "alert", "medium", body, i)>>
                            ELSE <<>>
             targets == parse_target_roles(<<>>, d.to, worker_role)
             sent == IF ~allowed_intent(worker_role, d.intent) THEN alert("disallowed")
                     ELSE IF d.message = "" THEN <<>>
                     ELSE IF targets = <<>> THEN alert("invalid")
                     ELSE [t \in DOMAIN targets |->
                             BusMessage(k, raw, targets[t], worker_role, d.intent, "low",
                                        "directive", i)]
         IN  sent \o dispatch_from_receipt(k, raw, worker_role, i + 1)

IdleRouter ==
    [pc |-> "idle", file |-> <<EmptyText, "">>, raw |-> NoReceipt, targets |-> <<>>,
     \* state/router/processed/<name>.sha256 (EmptyText: no such file)
     processed |-> [k \in RouterFiles |-> EmptyText],
     \* bus/inbox/<to>/router-*.md, in the order enqueue_bus_message wrote them
     forwarded |-> <<>>]

routerRest == <<board, last, lockVars, inbox, archive, deadletter, done, plock, retries,
                workers, alive, nextPid, newIds, supervisor, serial>>

\* write_receipt: open(out, "w") truncates the file
write_receipt_open(k) ==
    /\ receipts[k] \notin {NoReceipt, EmptyFile}
    /\ ghost.writes < MaxWrites
    /\ receipts' = [receipts EXCEPT ![k] = EmptyFile]
    /\ UNCHANGED <<clock, ghost, router, routerRest>>

\* write_receipt: the text is written; ts = time.strftime(...), to the second
write_receipt_text(k) ==
    /\ receipts[k] = EmptyFile
    /\ ghost.writes < MaxWrites
    /\ \E a \in ReceiptArgs : receipts' = [receipts EXCEPT ![k] = Receipt(a[1], a[2], clock)]
    /\ ghost' = [ghost EXCEPT !.writes = @ + 1]
    /\ UNCHANGED <<clock, router, routerRest>>

\* a second passes
time_passes ==
    /\ clock < MaxClock
    /\ clock' = clock + 1
    /\ UNCHANGED <<receipts, ghost, router, routerRest>>

\* the mutant of processed_state_read: the line end of the stored text is kept
processed_state_unstripped(k) == router.processed[k]

\* prev_hash = st_file.read_text().strip(), "" when there is no such file
processed_state_read(k) == strip(router.processed[k])

\* receipt_targets
receipt_targets(roles, req_from) ==
    LET out == IF "lead" \in roles THEN <<"lead">> ELSE <<>>
    IN  IF req_from # "" /\ req_from \in roles /\ \A i \in DOMAIN out : out[i] # req_from
        THEN Append(out, req_from) ELSE out

\* process_receipt up to the choice of the targets: the receipt and the
\* stored hash are read and compared; equal hashes return False; the
\* directives of a receipt not sent on behalf of the router are dispatched
process_receipt(k) ==
    /\ router.pc = "idle"
    /\ receipts[k] # NoReceipt
    /\ LET raw == receipts[k]
           cur_hash == sha256_text(raw)
           prev_hash == processed_state_read(k)
           req_from == IF raw = EmptyFile THEN "" ELSE request_from(k)
           targets == IF req_from = "router" THEN <<>> ELSE receipt_targets(RouterRoles, req_from)
       IN  IF prev_hash = cur_hash
           THEN router' = router
           ELSE router' = [router EXCEPT !.pc = IF targets = <<>> THEN "mark" ELSE "enqueue",
                                         !.file = k, !.raw = raw, !.targets = targets,
                                         !.forwarded = IF req_from = "router" THEN @
                                                       ELSE @ \o dispatch_from_receipt(k, raw, k[2], 1)]
    /\ UNCHANGED <<clock, receipts, ghost, routerRest>>

\* for t in targets: enqueue_bus_message(to_role=t, from_role="router", body=forwarded)
process_receipt_enqueue ==
    /\ router.pc = "enqueue"
    /\ router' = [router EXCEPT
                    !.forwarded = Append(@, Forwarded(router.file, router.raw,
                                                      Head(router.targets))),
                    !.targets = Tail(@),
                    !.pc = IF Len(router.targets) = 1 THEN "mark" ELSE "enqueue"]
    /\ UNCHANGED <<clock, receipts, ghost, routerRest>>

\* safe_atomic_write(st_file, cur_hash + "\n"); return True
process_receipt_mark ==
    /\ router.pc = "mark"
    /\ router' = [router EXCEPT
                    !.processed[router.file] = sha256_text(router.raw) \o <<"\n">>,
                    !.pc = "idle", !.file = IdleRouter.file, !.raw = NoReceipt]
    /\ UNCHANGED <<clock, receipts, ghost, routerRest>>

\* a worker has opened one receipt file for its first write; the router runs
RouterInit ==
    /\ board = default_board
    /\ clock = 0
    /\ last = NoCall
    /\ InitIdleLock
    /\ inbox = [r \in Roles |-> {}]
    /\ archive = [r \in Roles |-> {}]
    /\ deadletter = [r \in Roles |-> {}]
    /\ done = {} /\ plock = <<>> /\ retries = <<>>
    /\ \E k \in RouterFiles : receipts = [f \in RouterFiles |-> IF f = k THEN EmptyFile ELSE NoReceipt]
    /\ workers = <<>> /\ alive = {} /\ nextPid = 1 /\ newIds = 0
    /\ ghost = [writes |-> 0]
    /\ router = IdleRouter
    /\ supervisor = NoSupervisor /\ serial = NoSerial

RouterNext ==
    \/ time_passes
    \/ process_receipt_enqueue
    \/ process_receipt_mark
    \/ \E k \in RouterFiles :
         \/ write_receipt_open(k)
         \/ write_receipt_text(k)
         \/ process_receipt(k)

RouterSpec == RouterInit /\ [][RouterNext]_vars

---------------------------------------------------------------------------
(* The router alone over one receipt that is not rewritten: every status,  *)
(* every sender and every list of directives.                              *)

MaxDirectives == 2  \* directives in one receipt

ToExprs == {<<"ALL">>, <<"bogus">>, <<>>, <<"reviewer", "bogus", "reviewer">>}
Intents == {"Review", "implement", ""}
Messages == {"", "go"}
Directives == {Directive(to, intent, message) :
                 to \in ToExprs, intent \in Intents, message \in Messages}
DirectiveLists == UNION {[1..n -> Directives] : n \in 0..MaxDirectives}

\* what the outbox file can hold
ReceiptTexts ==
    {EmptyFile} \cup {[Receipt(a[1], a[2], 0) EXCEPT !.last_msg = ds] :
                        a \in ReceiptArgs, ds \in DirectiveLists}

DirectiveInit ==
    /\ board = default_board
    /\ clock = 0
    /\ last = NoCall
    /\ InitIdleLock
    /\ inbox = [r \in Roles |-> {}]
    /\ archive = [r \in Roles |-> {}]
    /\ deadletter = [r \in Roles |-> {}]
    /\ done = {} /\ plock = <<>> /\ retries = <<>>
    /\ \E k \in RouterFiles, raw \in ReceiptTexts :
         receipts = [f \in RouterFiles |-> IF f = k THEN raw ELSE NoReceipt]
    /\ workers = <<>> /\ alive = {} /\ nextPid = 1 /\ newIds = 0
    /\ ghost = [writes |-> 1]
    /\ router = IdleRouter
    /\ supervisor = NoSupervisor /\ serial = NoSerial

DirectiveNext ==
    \/ process_receipt_enqueue
    \/ process_receipt_mark
    \/ \E k \in RouterFiles : process_receipt(k)

DirectiveSpec == DirectiveInit /\ [][DirectiveNext]_vars

---------------------------------------------------------------------------
(* BootstrapSpec: one daemon of lead and the bootstrap message m1 in its   *)
(* inbox, in a session of the roles lead, builder-a, reviewer and tester.  *)
(* The daemon may crash at any step of process_one and is started again.   *)
(* shared/task.md exists and names an objective.                           *)

BootstrapRoles == {"lead", "builder-a", "reviewer", "tester"}
BootstrapWorkers == {1}
BootstrapKeys == WorkerMsgIds \X BootstrapRoles

\* the tasks that name the message as their source, as indices of the board
existing(b, source_message_id) ==
    {i \in 1..Len(b.tasks) : strip(b.tasks[i].source_message_id) = source_message_id}

\* _new_task_id(): an id no task has yet
new_task_id(b) == Len(b.tasks) + 1

\* process_one: if role == "lead" and request_intent == "bootstrap"
bootstrap_enter(w) ==
    LET wr == workers[w] IN
    /\ wr.pc = "load_retries"
    /\ wr.role = "lead"
    /\ workers' = [workers EXCEPT ![w].pc = "bootstrap_existing"]
    /\ UNCHANGED <<board, fsVars, osVars, ghost>>
    /\ UNCHANGED workerRest

\* run_lead_bootstrap: existing = [t for t in list_tasks(...) if
\* t.source_message_id == source_message_id]; if not existing: ...
bootstrap_existing(w) ==
    LET wr == workers[w] IN
    /\ wr.pc = "bootstrap_existing"
    /\ workers' = [workers EXCEPT ![w] =
                     IF existing(board, wr.msg.id) = {}
                     THEN [wr EXCEPT !.pc = "bootstrap_impl"]
                     ELSE [wr EXCEPT !.pc = "dispatch_list", !.ret = "bootstrap_receipt",
                                     !.dfrom = "lead", !.dto = ""]]
    /\ UNCHANGED <<board, fsVars, osVars, ghost>>
    /\ UNCHANGED workerRest

\* run_lead_bootstrap: add_task(created_by="lead", owner=..., depends_on=...,
\* intent=..., source_message_id=source_message_id); wr.task_id is impl_id
bootstrap_add(w, pc, after, owner, depends_on, intent) ==
    LET wr == workers[w]
        r == add_task_from(board, new_task_id(board), owner, depends_on, "lead", clock,
                           intent, wr.msg.id)
    IN
    /\ wr.pc = pc
    /\ board_call(r)
    /\ workers' = [workers EXCEPT ![w].pc = after,
                                  ![w].task_id = IF pc = "bootstrap_impl"
                                                 THEN new_task_id(board) ELSE @]
    /\ UNCHANGED <<fsVars, osVars, ghost>>
    /\ UNCHANGED workerRest

\* impl = add_task(owner=builder_role, depends_on=[], intent="implement")
bootstrap_add_impl(w) ==
    bootstrap_add(w, "bootstrap_impl", "bootstrap_review", "builder-a", <<>>, "implement")

\* if "reviewer" in roles: add_task(owner="reviewer", depends_on=[impl_id],
\* intent="review")
bootstrap_add_review(w) ==
    bootstrap_add(w, "bootstrap_review", "bootstrap_test", "reviewer",
                  <<workers[w].task_id>>, "review")

\* if "tester" in roles: add_task(owner="tester", depends_on=[impl_id],
\* intent="test")
bootstrap_add_test(w) ==
    bootstrap_add(w, "bootstrap_test", "bootstrap_dispatch", "tester",
                  <<workers[w].task_id>>, "test")

\* sent = dispatch_ready_tasks(sp, session=session, roles=roles, from_role="lead")
bootstrap_dispatch(w) ==
    LET wr == workers[w] IN
    /\ wr.pc = "bootstrap_dispatch"
    /\ workers' = [workers EXCEPT ![w].pc = "dispatch_list", ![w].ret = "bootstrap_receipt",
                                  ![w].dfrom = "lead", ![w].dto = ""]
    /\ UNCHANGED <<board, fsVars, osVars, ghost>>
    /\ UNCHANGED workerRest

\* dispatch_ready_tasks with roles = list_roles(sp)
bootstrap_dispatch_enqueue(w) == dispatch_enqueue_in(w, BootstrapRoles)

\* write_receipt(sp, mid, role, status="done", codex_rc=0, last_msg=summary)
bootstrap_receipt(w) ==
    LET wr == workers[w] IN
    /\ wr.pc = "bootstrap_receipt"
    /\ receipts' = [receipts EXCEPT ![key(wr)] = Receipt("done", 0, clock)]
    /\ workers' = [workers EXCEPT ![w].pc = "bootstrap_done"]
    /\ UNCHANGED <<board, inbox, archive, deadletter, done, plock, retries,
                   osVars, ghost>>
    /\ UNCHANGED workerRest

\* done_sentinel(sp, mid, role).write_text("ok\n"), after append_role_memory
bootstrap_done(w) ==
    LET wr == workers[w] IN
    /\ wr.pc = "bootstrap_done"
    /\ done' = done \cup {key(wr)}
    /\ workers' = [workers EXCEPT ![w].pc = "bootstrap_archive"]
    /\ UNCHANGED <<board, inbox, archive, deadletter, plock, retries, receipts,
                   osVars, ghost>>
    /\ UNCHANGED workerRest

\* msg_path.rename(archive_path(sp, role, msg_path)); return True through
\* finally: _cleanup_lockdir(lock_dir)
bootstrap_archive(w) ==
    LET wr == workers[w] IN
    /\ wr.pc = "bootstrap_archive"
    /\ inbox' = [inbox EXCEPT ![wr.role] = @ \ {wr.msg}]
    /\ archive' = [archive EXCEPT ![wr.role] = @ \cup {wr.msg}]
    /\ workers' = [workers EXCEPT ![w].pc = "cleanup_exists", ![w].ret = "idle"]
    /\ UNCHANGED <<board, deadletter, done, plock, retries, receipts, osVars, ghost>>
    /\ UNCHANGED workerRest

BootstrapInit ==
    /\ board = default_board
    /\ clock = 0
    /\ last = NoCall
    /\ InitIdleLock
    /\ inbox = [r \in BootstrapRoles |-> IF r = "lead" THEN {Msg(M1, 0)} ELSE {}]
    /\ archive = [r \in BootstrapRoles |-> {}]
    /\ deadletter = [r \in BootstrapRoles |-> {}]
    /\ done = {}
    /\ plock = [k \in BootstrapKeys |-> NoLock]
    /\ retries = [k \in BootstrapKeys |-> 0]
    /\ receipts = [k \in BootstrapKeys |-> NoReceipt]
    /\ workers = [w \in BootstrapWorkers |-> IdleWorker("lead", w)]
    /\ alive = BootstrapWorkers
    /\ nextPid = 2
    /\ newIds = 0
    /\ ghost = NoRuns /\ router = NoRouter /\ supervisor = NoSupervisor /\ serial = NoSerial

BootstrapNext ==
    \E w \in BootstrapWorkers :
        \/ process_one(w)
        \/ read_message(w)
        \/ done_check(w)
        \/ archive_done(w)
        \/ lock_exists(w)
        \/ lock_read_pid(w)
        \/ lock_age(w)
        \/ lock_mkdir(w)
        \/ lock_write_pid(w)
        \/ claim_message_task(w)
        \/ bootstrap_enter(w)
        \/ bootstrap_existing(w)
        \/ bootstrap_add_impl(w)
        \/ bootstrap_add_review(w)
        \/ bootstrap_add_test(w)
        \/ bootstrap_dispatch(w)
        \/ dispatch_list(w)
        \/ bootstrap_dispatch_enqueue(w)
        \/ dispatch_set(w)
        \/ bootstrap_receipt(w)
        \/ bootstrap_done(w)
        \/ bootstrap_archive(w)
        \/ lockdir_exists(w)
        \/ lockdir_unlink(w)
        \/ lockdir_rmdir(w)
        \/ Crash(w)
        \/ Restart(w)

BootstrapSpec == BootstrapInit /\ [][BootstrapNext]_vars

---------------------------------------------------------------------------
(* HappySpec: the whole session on the happy path.  One daemon each of     *)
(* lead, builder-a, reviewer and tester and the router; the bootstrap      *)
(* message m1 lies in lead's inbox; the tool always exits 0, emits no      *)
(* directive and changes no worktree; no process crashes.  A task-board    *)
(* call is two steps, the _read_json and the _write_json inside            *)
(* _update_board, and calls of different processes can interleave:         *)
(* tasks.lockdir does not keep them apart (LockSpec, C2_MutualExclusion).  *)
(* A daemon runs without interruption from one _write_json to its next     *)
(* _read_json; the router handles a receipt in one step and reads it       *)
(* whole.  The processing lock of a message is left out, one daemon per    *)
(* role never finding it taken, and so are the periodic dispatch scans,    *)
(* which find nothing to do in the states the properties look at.  In      *)
(* these steps no set_dispatch is refused, so no message file is unlinked   *)
(* under the daemon that handles it and the rename to the archive always   *)
(* finds its file: the except path of process_one is not taken.            *)

MaxDispatches == 3      \* dispatch messages new_id() names

\* the id enqueue_bus_message of the router gives the forward of a receipt
ForwardId(mid, role, status) == <<"router">> \o mid \o <<role, status>>

\* the from line of a message's front matter, as far as receipt_targets
\* tells senders apart
happy_request_from(mid) == IF Head(mid) = "router" THEN "router" ELSE "system"

HappyIdle ==
    [pc |-> "idle", msg |-> NoMsg, claimed |-> FALSE, snap |-> default_board,
     todo |-> <<>>, dmsg |-> NoMsg, impl |-> 0, dfrom |-> "", ret |-> ""]

happyRest == <<clock, last, lockVars, deadletter, plock, retries, alive, nextPid,
               ghost, supervisor, serial>>

\* the files a daemon reads and writes, as they are now
Files ==
    [board |-> board, inbox |-> inbox, archive |-> archive, done |-> done,
     receipts |-> receipts, newIds |-> newIds, enabled |-> TRUE]

\* the step leaves the files as S and the daemon of role w as wr
happy_leaves(w, S, wr) ==
    /\ S.enabled
    /\ board' = S.board /\ inbox' = S.inbox /\ archive' = S.archive /\ done' = S.done
    /\ receipts' = S.receipts /\ newIds' = S.newIds
    /\ workers' = [workers EXCEPT ![w] = wr]
    /\ UNCHANGED <<router, happyRest>>

\* _update_board: if changed: _write_json(paths.file, board)
write_json(S, r) == [S EXCEPT !.board = IF r.changed THEN r.board ELSE @]

\* write_receipt(sp, mid, role, status=status, codex_rc=0)
write_receipt_as(S, w, msg, status) ==
    [S EXCEPT !.receipts = (<<msg.id, w>> :> Receipt(status, 0, 0)) @@ @]

\* done_sentinel(...).write_text("ok\n"); msg_path.rename(archive_path(...))
happy_done(S, w, wr) ==
    <<[S EXCEPT !.done = @ \cup {<<wr.msg.id, w>>},
                !.inbox[w] = @ \ {wr.msg}, !.archive[w] = @ \cup {wr.msg}],
      HappyIdle>>

\* for task in list_dispatchable_tasks(sp.session_root): what the loop of
\* dispatch_ready_tasks goes through
dispatchable(b) ==
    LET found == list_dispatchable_tasks(b, "") IN
    [k \in 1..Len(found) |->
       [id |-> b.tasks[found[k]].id, owner |-> b.tasks[found[k]].owner,
        intent |-> b.tasks[found[k]].intent]]

\* dispatch_ready_tasks, head of the loop: mid = new_id(); enqueue_bus_message;
\* set_dispatch up to its _read_json.  After the loop the bootstrap writes
\* its receipt; then the done sentinel and the rename
happy_dispatch(S, w, wr) ==
    IF wr.todo = <<>>
    THEN happy_done(IF wr.ret = "bootstrap" THEN write_receipt_as(S, w, wr.msg, "done")
                    ELSE S, w, wr)
    ELSE LET t == Head(wr.todo)
             msg == Msg(NewId(S.newIds + 1), t.id)
         IN <<[S EXCEPT !.enabled = S.newIds < MaxDispatches, !.newIds = @ + 1,
                        !.inbox[t.owner] = @ \cup {msg}],
              [wr EXCEPT !.pc = "set_write", !.dmsg = msg, !.snap = S.board]>>

\* codex_exec returns 0; write_receipt(status="done"); a message without a
\* claimed task is done and archived, for a claimed task complete_task
\* follows, up to its _read_json
happy_codex_exec(S, w, wr) ==
    LET S1 == write_receipt_as(S, w, wr.msg, "done") IN
    IF wr.claimed
    THEN <<S1, [wr EXCEPT !.pc = "complete_write", !.snap = S1.board]>>
    ELSE happy_done(S1, w, wr)

\* process_one: the next message file of the inbox; a message with a done
\* sentinel is archived, the bootstrap message goes to run_lead_bootstrap,
\* a message with a task_id to claim_task, any other to the tool
happy_select(w) ==
    /\ workers[w].pc = "idle"
    /\ \E m \in inbox[w] :
         LET wr == [HappyIdle EXCEPT !.msg = m]
             next ==
               IF <<m.id, w>> \in done
               THEN <<[Files EXCEPT !.inbox[w] = @ \ {m}, !.archive[w] = @ \cup {m}],
                      HappyIdle>>
               ELSE IF w = "lead" /\ m.id = M1
               THEN IF existing(board, m.id) = {}
                    THEN <<Files, [wr EXCEPT !.pc = "impl_write", !.snap = board]>>
                    ELSE happy_dispatch(Files, w,
                           [wr EXCEPT !.todo = dispatchable(board), !.dfrom = "lead",
                                      !.ret = "bootstrap"])
               ELSE IF m.task_id # 0
               THEN <<Files, [wr EXCEPT !.pc = "claim_write", !.snap = board]>>
               ELSE happy_codex_exec(Files, w, wr)
         IN happy_leaves(w, next[1], next[2])

\* claim_task from its _write_json on, and what process_one makes of its
\* answer
happy_claim_task(w) ==
    LET wr == workers[w]
        r == claim_task_mutate(wr.snap, wr.msg.task_id, w, wr.msg.id)
        S == write_json(Files, r)
        blocked == r.reason \in {"owner_mismatch", "claimed_by_other", "deps_blocked"}
        next == IF r.ok THEN happy_codex_exec(S, w, [wr EXCEPT !.claimed = TRUE])
                ELSE IF r.reason = "completed" THEN happy_done(S, w, wr)
                ELSE IF blocked THEN <<S, HappyIdle>>
                ELSE happy_codex_exec(S, w, wr)
    IN
    /\ wr.pc = "claim_write"
    /\ happy_leaves(w, next[1], next[2])

\* complete_task from its _write_json on (its answer is not looked at), then
\* dispatch_ready_tasks(from_role="system")
happy_complete_task(w) ==
    LET wr == workers[w]
        r == complete_task_mutate(wr.snap, wr.msg.task_id, w, EmptyText)
        S == write_json(Files, r)
        next == happy_dispatch(S, w, [wr EXCEPT !.todo = dispatchable(S.board),
                                                !.dfrom = "system", !.ret = "done"])
    IN
    /\ wr.pc = "complete_write"
    /\ happy_leaves(w, next[1], next[2])

\* run_lead_bootstrap: an add_task from its _write_json on; the next
\* add_task follows up to its _read_json, after the last one
\* dispatch_ready_tasks(from_role="lead")
happy_add_task(w, pc, after, owner, depends_on, intent) ==
    LET wr == workers[w]
        r == add_task_from(wr.snap, new_task_id(wr.snap), owner, depends_on, "lead", 0,
                           intent, wr.msg.id)
        S == write_json(Files, r)
        wr1 == [wr EXCEPT !.impl = IF pc = "impl_write" THEN new_task_id(wr.snap) ELSE @]
        next == IF after = "dispatch"
                THEN happy_dispatch(S, w, [wr1 EXCEPT !.todo = dispatchable(S.board),
                                                      !.dfrom = "lead", !.ret = "bootstrap"])
                ELSE <<S, [wr1 EXCEPT !.pc = after, !.snap = S.board]>>
    IN
    /\ wr.pc = pc
    /\ happy_leaves(w, next[1], next[2])

happy_add_impl(w) ==
    happy_add_task(w, "impl_write", "review_write", "builder-a", <<>>, "implement")

happy_add_review(w) ==
    happy_add_task(w, "review_write", "test_write", "reviewer", <<workers[w].impl>>,
                   "review")

happy_add_test(w) ==
    happy_add_task(w, "test_write", "dispatch", "tester", <<workers[w].impl>>, "test")

\* set_dispatch from its _write_json on; if not ok:
\* msg_path.unlink(missing_ok=True); then the next task of the loop
happy_set_dispatch(w) ==
    LET wr == workers[w]
        t == Head(wr.todo)
        r == set_dispatch_mutate(wr.snap, t.id, wr.dfrom, t.owner, t.intent, wr.dmsg.id)
        S == write_json(Files, r)
        S1 == IF r.ok THEN S ELSE [S EXCEPT !.inbox[t.owner] = @ \ {wr.dmsg}]
        next == happy_dispatch(S1, w, [wr EXCEPT !.todo = Tail(wr.todo), !.dmsg = NoMsg])
    IN
    /\ wr.pc = "set_write"
    /\ happy_leaves(w, next[1], next[2])

\* the receipt file has no mark of its present content
Unrouted(k) == <<k, sha256_text(receipts[k])>> \notin router.processed

\* router.py process_receipt, whole: a receipt of a message not sent by the
\* router is forwarded to receipt_targets, and the hash is stored
happy_process_receipt(k) ==
    LET raw == receipts[k]
        req_from == happy_request_from(k[1])
        targets == IF req_from = "router" THEN <<>>
                   ELSE receipt_targets(BootstrapRoles, req_from)
    IN
    /\ Unrouted(k)
    /\ inbox' = [r \in BootstrapRoles |->
                   IF \E i \in DOMAIN targets : targets[i] = r
                   THEN inbox[r] \cup {Msg(ForwardId(k[1], k[2], raw.status), 0)}
                   ELSE inbox[r]]
    /\ router' = [router EXCEPT !.processed =
                     {p \in @ : p[1] # k} \cup {<<k, sha256_text(raw)>>}]
    /\ UNCHANGED <<board, archive, done, receipts, workers, newIds, happyRest>>

HappyInit ==
    /\ board = default_board
    /\ clock = 0
    /\ last = NoCall
    /\ InitIdleLock
    /\ inbox = [r \in BootstrapRoles |-> IF r = "lead" THEN {Msg(M1, 0)} ELSE {}]
    /\ archive = [r \in BootstrapRoles |-> {}]
    /\ deadletter = <<>>
    /\ done = {}
    /\ plock = <<>>
    /\ retries = <<>>
    /\ receipts = <<>>
    /\ workers = [w \in BootstrapRoles |-> HappyIdle]
    /\ alive = {}
    /\ nextPid = 1
    /\ newIds = 0
    /\ ghost = <<>>
    \* state/router/processed/: pairs of a receipt file and the hash stored for it
    /\ router = [processed |-> {}]
    /\ supervisor = NoSupervisor /\ serial = NoSerial

\* one step of the daemon of role w
happy_daemon(w) ==
    \/ happy_select(w)
    \/ happy_claim_task(w)
    \/ happy_complete_task(w)
    \/ happy_add_impl(w)
    \/ happy_add_review(w)
    \/ happy_add_test(w)
    \/ happy_set_dispatch(w)

\* one step of the router
happy_router == \E k \in DOMAIN receipts : happy_process_receipt(k)

HappyNext ==
    \/ \E w \in BootstrapRoles : happy_daemon(w)
    \/ happy_router

\* every daemon and the router keep running: weak fairness of each
HappySpec ==
    /\ HappyInit /\ [][HappyNext]_vars
    /\ \A w \in BootstrapRoles : WF_vars(happy_daemon(w))
    /\ WF_vars(happy_router)

---------------------------------------------------------------------------
(* supervisor.py: main, one system call per step, next to children that    *)
(* exit and to SIGTERM/SIGINT arriving at any moment.  The handler only    *)
(* sets the stop flag; sleeps return after it.  spawn() succeeds.          *)

\* ["router"] + roles
ChildNames == <<"router", "lead", "builder-a">>

MaxRespawns == 2    \* children that exit while the supervisor runs

\* specs[name].cmd
ChildCmd(name) ==
    IF name = "router" THEN <<"router.py", "daemon">>
    ELSE <<"autopilot.py", "daemon", "--role", name>>

NoChild == [pid |-> 0, cmd |-> <<>>]

supRest == <<board, clock, last, lockVars, inbox, archive, deadletter, done, plock,
             retries, receipts, workers, newIds, ghost, router, serial>>

\* the mutant of child_exited: poll() never reports an exit
child_exited_never(pid) == FALSE

\* p.poll() is not None
child_exited(pid) == pid \notin alive

\* sorted(procs.items()): the child names in the order of their text
SortedNames == <<"builder-a", "lead", "router">>

\* _write_pids: one line "name pid" for every entry of procs with a pid, in
\* the order of the names; the file is replaced whole
write_pids(table) ==
    LET listed == SelectSeq(SortedNames,
                            LAMBDA n : n \in DOMAIN table /\ table[n].pid # 0)
    IN [k \in 1..Len(listed) |-> <<listed[k], table[listed[k]].pid>>]

\* _start without the call of _write_pids
start_child_unlisted(name, more, after) ==
    /\ alive' = alive \cup {nextPid}
    /\ nextPid' = nextPid + 1
    /\ supervisor' = [supervisor EXCEPT
                        !.procs[name] = [pid |-> nextPid, cmd |-> ChildCmd(name)],
                        !.todo = Tail(@),
                        !.pc = IF Len(supervisor.todo) > 1 THEN more ELSE after]

\* _start(name): spawn(specs[name]); procs[name] = p; _write_pids(pids_file, procs)
start_child(name, more, after) ==
    LET table == [supervisor.procs EXCEPT ![name] = [pid |-> nextPid, cmd |-> ChildCmd(name)]]
    IN
    /\ alive' = alive \cup {nextPid}
    /\ nextPid' = nextPid + 1
    /\ supervisor' = [supervisor EXCEPT
                        !.procs = table,
                        !.pids = write_pids(table),
                        !.todo = Tail(@),
                        !.pc = IF Len(supervisor.todo) > 1 THEN more ELSE after]

\* for name in ["router"] + roles: _start(name)
supervisor_start ==
    /\ supervisor.pc = "start"
    /\ start_child(Head(supervisor.todo), "start", "check_stop")
    /\ UNCHANGED supRest

\* while True: if stop["flag"]: break; ...; for name, p in list(procs.items())
supervisor_check_stop ==
    /\ supervisor.pc = "check_stop"
    /\ supervisor' = [supervisor EXCEPT
                        !.pc = IF supervisor.stop THEN "terminate" ELSE "poll",
                        !.todo = IF supervisor.stop THEN <<>> ELSE ChildNames]
    /\ UNCHANGED <<alive, nextPid, supRest>>

\* rc = p.poll(); if rc is None: continue; ...; time.sleep(0.5)
supervisor_poll ==
    /\ supervisor.pc = "poll"
    /\ LET name == Head(supervisor.todo) IN
       supervisor' =
         IF child_exited(supervisor.procs[name].pid)
         THEN [supervisor EXCEPT !.pc = "restart"]
         ELSE [supervisor EXCEPT !.todo = Tail(@),
                                 !.pc = IF Len(supervisor.todo) > 1 THEN "poll" ELSE "sleep"]
    /\ UNCHANGED <<alive, nextPid, supRest>>

\* _start(name) after the sleep of half a second
supervisor_restart ==
    /\ supervisor.pc = "restart"
    /\ start_child(Head(supervisor.todo), "poll", "sleep")
    /\ UNCHANGED supRest

\* time.sleep(1.0) at the end of the loop body
supervisor_sleep ==
    /\ supervisor.pc = "sleep"
    /\ supervisor' = [supervisor EXCEPT !.pc = "check_stop"]
    /\ UNCHANGED <<alive, nextPid, supRest>>

\* shutdown: p.terminate() for every child; a child that gets SIGTERM exits
\* at once or goes on running
supervisor_terminate ==
    /\ supervisor.pc = "terminate"
    /\ \E gone \in SUBSET {supervisor.procs[n].pid : n \in DOMAIN supervisor.procs} :
         alive' = alive \ gone
    /\ supervisor' = [supervisor EXCEPT !.pc = "kill"]
    /\ UNCHANGED <<nextPid, supRest>>

\* after time.sleep(2.0): p.kill() for every child poll() finds running;
\* _write_pids(pids_file, {}); return 0
supervisor_kill ==
    /\ supervisor.pc = "kill"
    /\ alive' = alive \ {supervisor.procs[n].pid : n \in DOMAIN supervisor.procs}
    /\ supervisor' = [supervisor EXCEPT !.pc = "done", !.pids = write_pids(<<>>),
                                        !.rc = <<0>>]
    /\ UNCHANGED <<nextPid, supRest>>

\* _handle: SIGTERM or SIGINT arrives while main runs
supervisor_signal ==
    /\ supervisor.pc # "done"
    /\ ~supervisor.stop
    /\ supervisor' = [supervisor EXCEPT !.stop = TRUE]
    /\ UNCHANGED <<alive, nextPid, supRest>>

\* a child process exits of its own (crash, fatal error, signal)
child_exit ==
    /\ supervisor.pc # "done"
    /\ nextPid <= Len(ChildNames) + MaxRespawns
    /\ \E n \in DOMAIN supervisor.procs :
         /\ supervisor.procs[n].pid \in alive
         /\ alive' = alive \ {supervisor.procs[n].pid}
    /\ UNCHANGED <<nextPid, supervisor, supRest>>

SupervisorInit ==
    /\ board = default_board
    /\ clock = 0
    /\ last = NoCall
    /\ InitIdleLock
    /\ inbox = <<>> /\ archive = <<>> /\ deadletter = <<>>
    /\ done = {} /\ plock = <<>> /\ retries = <<>> /\ receipts = <<>>
    /\ workers = <<>> /\ alive = {} /\ nextPid = 1 /\ newIds = 0 /\ ghost = <<>>
    /\ router = NoRouter
    /\ supervisor = [pc |-> "start", stop |-> FALSE, todo |-> ChildNames,
                     procs |-> [n \in {ChildNames[i] : i \in DOMAIN ChildNames} |-> NoChild],
                     \* pids.txt, not yet written by this run, and main's return code
                     pids |-> <<>>, rc |-> <<>>]
    /\ serial = NoSerial

SupervisorStep ==
    \/ supervisor_start
    \/ supervisor_check_stop
    \/ supervisor_poll
    \/ supervisor_restart
    \/ supervisor_sleep
    \/ supervisor_terminate
    \/ supervisor_kill

SupervisorNext ==
    \/ SupervisorStep
    \/ supervisor_signal
    \/ child_exit

\* the supervisor process keeps running: a step it can take is taken
SupervisorSpec == SupervisorInit /\ [][SupervisorNext]_vars /\ WF_vars(SupervisorStep)

---------------------------------------------------------------------------
(* autopilot.py process_one in serial mode (AUTOPILOT_GLOBAL_LOCK=1): the  *)
(* stale check, _cleanup_lockdir, DirLock.__enter__, codex_exec and        *)
(* DirLock.__exit__ on autopilot.global.lockdir, one system call per step. *)
(* Every worker process is alive and no lock is older than                 *)
(* LOCK_STALE_SECONDS; the age is infinite only when stat() finds no       *)
(* directory.                                                              *)

SerialWorkers == 1..NumWorkers      \* the pids of the workers
MaxInvocations == 2                 \* tool invocations per worker

\* serial.dir: the directory exists; serial.pid: the content of its pid
\* file, 0 for no file; serial.at[w]: the worker's position, the pid it read
\* and the invocations it has left
SerialIdle == [pc |-> "idle", pid |-> 0, left |-> MaxInvocations]

serial_at(w, pc) == [serial EXCEPT !.at[w].pc = pc]

\* if _use_global_lock(): if global_lock.exists():
global_lock_exists(w) ==
    /\ serial.at[w].pc = "idle"
    /\ serial.at[w].left > 0
    /\ serial' = serial_at(w, IF serial.dir THEN "read_pid" ELSE "mkdir")

\* pid = _read_lock_pid(global_lock)
global_lock_read_pid(w) ==
    /\ serial.at[w].pc = "read_pid"
    /\ serial' = [serial EXCEPT !.at[w].pc = "age",
                                !.at[w].pid = IF serial.dir THEN serial.pid ELSE 0]

\* pid <= 0 or not _pid_alive(pid) or age_s >= LOCK_STALE_SECONDS
global_lock_is_stale(dir, pid) == pid <= 0 \/ pid \notin alive \/ ~dir

\* age_s = _lock_age_seconds(global_lock) and the test of the three conditions
global_lock_age(w) ==
    /\ serial.at[w].pc = "age"
    /\ serial' = serial_at(w, IF global_lock_is_stale(serial.dir, serial.at[w].pid)
                              THEN "cleanup" ELSE "mkdir")

\* _cleanup_lockdir: if not lock_dir.exists(): return; pid_file.unlink()
global_lock_cleanup(w) ==
    /\ serial.at[w].pc = "cleanup"
    /\ serial' = IF serial.dir
                 THEN [serial EXCEPT !.at[w].pc = "rmdir", !.pid = 0]
                 ELSE serial_at(w, "mkdir")

\* _cleanup_lockdir: os.rmdir(lock_dir); a directory that has a pid file
\* again is renamed into _stale_lockdirs
global_lock_rmdir(w) ==
    /\ serial.at[w].pc = "rmdir"
    /\ serial' = [serial EXCEPT !.at[w].pc = "mkdir", !.dir = FALSE, !.pid = 0]

\* DirLock.__enter__: os.mkdir(self.lock_dir); FileExistsError: sleep and retry
global_lock_mkdir(w) ==
    /\ serial.at[w].pc = "mkdir"
    /\ ~serial.dir
    /\ serial' = [serial EXCEPT !.at[w].pc = "write_pid", !.dir = TRUE]

\* DirLock.__enter__: (self.lock_dir / "pid").write_text(str(os.getpid()));
\* without the directory the write raises and process_one fails
global_lock_write_pid(w) ==
    /\ serial.at[w].pc = "write_pid"
    /\ serial' = IF serial.dir
                 THEN [serial EXCEPT !.at[w].pc = "codex_exec", !.pid = w]
                 ELSE [serial EXCEPT !.at[w].pc = "idle", !.at[w].left = @ - 1]

\* codex_exec returns
global_lock_codex_exec(w) ==
    /\ serial.at[w].pc = "codex_exec"
    /\ serial' = serial_at(w, "exit")

\* DirLock.__exit__: unlink what the directory holds
global_lock_exit(w) ==
    /\ serial.at[w].pc = "exit"
    /\ serial' = [serial EXCEPT !.at[w].pc = "exit_rmdir", !.pid = 0]

\* DirLock.__exit__: os.rmdir(self.lock_dir), every error swallowed (a
\* directory that has a pid file again stays)
global_lock_exit_rmdir(w) ==
    /\ serial.at[w].pc = "exit_rmdir"
    /\ serial' = [serial EXCEPT !.at[w].pc = "idle", !.at[w].left = @ - 1,
                                !.dir = IF serial.pid = 0 THEN FALSE ELSE @]

serialRest == <<board, clock, last, lockVars, inbox, archive, deadletter, done, plock,
                retries, receipts, workers, alive, nextPid, newIds, ghost, router,
                supervisor>>

SerialInit ==
    /\ board = default_board
    /\ clock = 0
    /\ last = NoCall
    /\ InitIdleLock
    /\ inbox = <<>> /\ archive = <<>> /\ deadletter = <<>>
    /\ done = {} /\ plock = <<>> /\ retries = <<>> /\ receipts = <<>>
    /\ workers = <<>> /\ alive = SerialWorkers /\ nextPid = NumWorkers + 1
    /\ newIds = 0 /\ ghost = <<>>
    /\ router = NoRouter
    /\ supervisor = NoSupervisor
    /\ serial = [dir |-> FALSE, pid |-> 0, at |-> [w \in SerialWorkers |-> SerialIdle]]

SerialNext ==
    \E w \in SerialWorkers :
        \/ global_lock_exists(w) /\ UNCHANGED serialRest
        \/ global_lock_read_pid(w) /\ UNCHANGED serialRest
        \/ global_lock_age(w) /\ UNCHANGED serialRest
        \/ global_lock_cleanup(w) /\ UNCHANGED serialRest
        \/ global_lock_rmdir(w) /\ UNCHANGED serialRest
        \/ global_lock_mkdir(w) /\ UNCHANGED serialRest
        \/ global_lock_write_pid(w) /\ UNCHANGED serialRest
        \/ global_lock_codex_exec(w) /\ UNCHANGED serialRest
        \/ global_lock_exit(w) /\ UNCHANGED serialRest
        \/ global_lock_exit_rmdir(w) /\ UNCHANGED serialRest

SerialSpec == SerialInit /\ [][SerialNext]_vars

---------------------------------------------------------------------------
(* Errno22Spec: the router's pass over the outbox when process_receipt     *)
(* raises OSError(errno 22) with a path that ends in                       *)
(* autopilot.global.lockdir/pid.  The pid file is missing, a directory, or *)
(* a regular file with some text; a worker may take the global lock anew   *)
(* after the router moved it away.  File-system calls of the router do not *)
(* fail here.                                                              *)

NumReceipts == 2        \* receipt files in bus/outbox/
MaxLockReceipts == 2    \* router-lock receipts written

PID_PREVIEW_BYTES == 64     \* read_bytes()[:64]
PID_MAX_LEN == 20           \* 1 <= len(preview) <= 20

AsciiDigits == {"0", "1"}

Rep(c, n) == [i \in 1..n |-> c]

\* texts of a pid file: white space, digits, maybe a stray byte, white
\* space, maybe a stray byte at the end
PidTexts ==
    {Rep(" ", l) \o Rep("1", d) \o mid \o Rep("\n", t) \o end :
        l \in {0, 1}, d \in {0, 1, 2, PID_MAX_LEN, PID_MAX_LEN + 1},
        mid \in {<<>>, <<"x">>}, t \in {0, 1, PID_PREVIEW_BYTES},
        end \in {<<>>, <<"x">>}}

\* what lstat and read_bytes find at autopilot.global.lockdir/pid
NoPidFile == [kind |-> "missing", text |-> <<>>]
PidFiles ==
    {NoPidFile, [kind |-> "dir", text |-> <<>>]}
        \cup {[kind |-> "file", text |-> t] : t \in PidTexts}

\* _PID_RE.match(preview): ^[0-9]+$
PID_RE_match(s) == s # <<>> /\ \A i \in 1..Len(s) : s[i] \in AsciiDigits

\* confirm_global_lock_pid_broken without the strip of the preview
confirm_unstripped(f) ==
    IF f.kind = "missing" THEN TRUE
    ELSE IF f.kind # "file" THEN TRUE
    ELSE LET preview == SubSeq(f.text, 1, IF Len(f.text) < PID_PREVIEW_BYTES
                                           THEN Len(f.text) ELSE PID_PREVIEW_BYTES)
         IN IF ~(1 <= Len(preview) /\ Len(preview) <= PID_MAX_LEN) THEN TRUE
            ELSE ~PID_RE_match(preview)

\* confirm_global_lock_pid_broken: lstat fails; not S_ISREG; the first 64
\* bytes, stripped, are not 1 to 20 characters long; or do not match _PID_RE
confirm_global_lock_pid_broken(f) ==
    IF f.kind = "missing" THEN TRUE
    ELSE IF f.kind # "file" THEN TRUE
    ELSE LET data == SubSeq(f.text, 1, IF Len(f.text) < PID_PREVIEW_BYTES
                                        THEN Len(f.text) ELSE PID_PREVIEW_BYTES)
             preview == strip(data)
         IN IF ~(1 <= Len(preview) /\ Len(preview) <= PID_MAX_LEN) THEN TRUE
            ELSE IF ~PID_RE_match(preview) THEN TRUE
            ELSE FALSE

errnoRest == <<board, clock, last, lockVars, inbox, archive, deadletter, done, plock,
               retries, receipts, workers, alive, nextPid, newIds, ghost, supervisor,
               serial>>

\* the router pass: except OSError around process_receipt(p), with
\* _is_target_errno22 matching
errno22_raised(p) ==
    /\ router.pc = "idle"
    /\ p \in router.outbox
    /\ router' = [router EXCEPT !.pc = "probe", !.item = p]

\* the router pass: an OSError that _is_target_errno22 does not match:
\* quarantine_receipt(sp, p, ...)
other_oserror(p) ==
    /\ router.pc = "idle"
    /\ p \in router.outbox
    /\ router' = [router EXCEPT !.outbox = @ \ {p}, !.bad_receipts = @ \cup {p}]

\* confirmed, probe_msg = confirm_global_lock_pid_broken(sp, target)
errno22_probe ==
    /\ router.pc = "probe"
    /\ router' = [router EXCEPT !.pc = "handle", !.seen = router.pid,
                     !.confirmed = confirm_global_lock_pid_broken(router.pid)]

\* handle_errno22_invalid_lock_pid: not confirmed: quarantine_receipt of the
\* current item and return; confirmed: quarantine_global_lockdir, which
\* renames the lock directory into state/router/bad-locks/ when it exists,
\* then write_router_lock_receipt of status done or warn
handle_errno22_invalid_lock_pid ==
    /\ router.pc = "handle"
    /\ IF ~router.confirmed
       THEN router' = [router EXCEPT !.pc = "idle", !.item = 0,
                          !.outbox = @ \ {router.item},
                          !.bad_receipts = @ \cup {router.item}]
       ELSE /\ Len(router.lock_receipts) < MaxLockReceipts
            /\ router' = [router EXCEPT !.pc = "idle", !.item = 0,
                             !.lockdir = FALSE,
                             !.pid = IF router.lockdir THEN NoPidFile ELSE @,
                             !.bad_locks = IF router.lockdir THEN Append(@, router.pid)
                                           ELSE @,
                             !.lock_receipts =
                                 Append(@, IF router.lockdir THEN "done" ELSE "warn")]

\* a worker in serial mode: os.mkdir(autopilot.global.lockdir)
errno22_worker_mkdir ==
    /\ ~router.lockdir
    /\ router' = [router EXCEPT !.lockdir = TRUE, !.pid = NoPidFile]

\* a worker in serial mode: (lock_dir / "pid").write_text(str(os.getpid()))
errno22_worker_write_pid ==
    /\ router.lockdir /\ router.pid = NoPidFile
    /\ router' = [router EXCEPT !.pid = [kind |-> "file", text |-> <<"1", "0">>]]

Errno22Init ==
    /\ board = default_board
    /\ clock = 0
    /\ last = NoCall
    /\ InitIdleLock
    /\ inbox = <<>> /\ archive = <<>> /\ deadletter = <<>>
    /\ done = {} /\ plock = <<>> /\ retries = <<>> /\ receipts = <<>>
    /\ workers = <<>> /\ alive = {} /\ nextPid = 1
    /\ newIds = 0 /\ ghost = <<>>
    /\ supervisor = NoSupervisor
    /\ serial = NoSerial
    /\ \E f \in PidFiles, dir \in BOOLEAN :
          /\ dir \/ f = NoPidFile
          /\ router = [pc |-> "idle", item |-> 0, confirmed |-> FALSE, seen |-> NoPidFile,
                       lockdir |-> dir, pid |-> f, outbox |-> 1..NumReceipts,
                       bad_receipts |-> {}, bad_locks |-> <<>>, lock_receipts |-> <<>>]

Errno22Next ==
    \/ \E p \in 1..NumReceipts : errno22_raised(p) /\ UNCHANGED errnoRest
    \/ \E p \in 1..NumReceipts : other_oserror(p) /\ UNCHANGED errnoRest
    \/ errno22_probe /\ UNCHANGED errnoRest
    \/ handle_errno22_invalid_lock_pid /\ UNCHANGED errnoRest
    \/ errno22_worker_mkdir /\ UNCHANGED errnoRest
    \/ errno22_worker_write_pid /\ UNCHANGED errnoRest

Errno22Spec == Errno22Init /\ [][Errno22Next]_vars

---------------------------------------------------------------------------
(* RaceSpec: three calls of dispatch_ready_tasks at the same time: the     *)
(* periodic dispatch of lead, the dispatch after a completion (from        *)
(* "system") and the self-dispatch of the reviewer, over tasks of the      *)
(* reviewer that are dispatchable.  set_dispatch is two steps, the         *)
(* _read_json and the _write_json inside _update_board: tasks.lockdir does *)
(* not keep two calls apart (LockSpec, C2_MutualExclusion).  No daemon     *)
(* handles a message meanwhile.                                            *)

NumRaceTasks == 2       \* dispatchable tasks on the board

RaceDispatchers == {"lead", "system", "reviewer"}

\* new_id() of the k-th message a dispatcher sends: no two calls give one id
RaceId(w, k) == <<"m", w, Digits[k]>>

\* owner=role for the self-dispatch, owner="" for the others
race_owner(w) == IF w \in {"lead", "system"} THEN "" ELSE w

RaceIdle ==
    [pc |-> "start", todo |-> <<>>, sent |-> 0, made |-> 0, dmsg |-> NoMsg,
     snap |-> default_board]

raceRest == <<clock, last, lockVars, archive, deadletter, done, plock, retries,
              receipts, alive, nextPid, newIds, ghost, router, supervisor, serial>>

\* daemon: inbox_count == 0 before a self-dispatch; then
\* for task in list_dispatchable_tasks(owner=owner)
race_list(w) ==
    LET wr == workers[w]
        found == list_dispatchable_tasks(board, race_owner(w))
        skip == w \notin {"lead", "system"} /\ inbox[w] # {}
    IN
    /\ wr.pc = "start"
    /\ workers' = [workers EXCEPT ![w] =
                     IF skip THEN [wr EXCEPT !.pc = "returned"]
                     ELSE [wr EXCEPT !.pc = "next",
                                     !.todo = [k \in 1..Len(found) |->
                                                 [id |-> board.tasks[found[k]].id,
                                                  owner |-> board.tasks[found[k]].owner,
                                                  intent |-> board.tasks[found[k]].intent]]]]
    /\ UNCHANGED <<board, inbox>>

\* head of the loop: break at DISPATCH_MAX_PER_SCAN, else mid = new_id();
\* enqueue_bus_message(...)
race_enqueue(w) ==
    LET wr == workers[w] IN
    /\ wr.pc = "next"
    /\ IF wr.todo = <<>> \/ wr.sent >= DISPATCH_MAX_PER_SCAN
       THEN /\ workers' = [workers EXCEPT ![w] = [wr EXCEPT !.pc = "returned", !.todo = <<>>]]
            /\ UNCHANGED inbox
       ELSE LET t == Head(wr.todo)
                msg == Msg(RaceId(w, wr.made + 1), t.id)
            IN /\ inbox' = [inbox EXCEPT ![t.owner] = @ \cup {msg}]
               /\ workers' = [workers EXCEPT ![w] =
                                [wr EXCEPT !.pc = "set_read", !.dmsg = msg, !.made = @ + 1]]
    /\ UNCHANGED board

\* set_dispatch, _update_board: board = _read_json(paths.file)
race_set_read(w) ==
    LET wr == workers[w] IN
    /\ wr.pc = "set_read"
    /\ workers' = [workers EXCEPT ![w] = [wr EXCEPT !.pc = "set_write", !.snap = board]]
    /\ UNCHANGED <<board, inbox>>

\* set_dispatch, _update_board: _mutate(board) and, if changed, _write_json;
\* then sent.append(...) or, if not ok, on to the unlink
race_set_write(w) ==
    LET wr == workers[w]
        t == Head(wr.todo)
        r == set_dispatch_mutate(wr.snap, t.id, w, t.owner, t.intent, wr.dmsg.id)
    IN
    /\ wr.pc = "set_write"
    /\ board' = IF r.changed THEN r.board ELSE board
    /\ workers' = [workers EXCEPT ![w] =
                     IF r.ok
                     THEN [wr EXCEPT !.pc = "next", !.todo = Tail(wr.todo), !.sent = @ + 1,
                                     !.dmsg = NoMsg, !.snap = default_board]
                     ELSE [wr EXCEPT !.pc = "unlink", !.snap = default_board]]
    /\ UNCHANGED inbox

\* if not ok: msg_path.unlink(missing_ok=True); continue
race_unlink(w) ==
    LET wr == workers[w]  t == Head(wr.todo) IN
    /\ wr.pc = "unlink"
    /\ inbox' = [inbox EXCEPT ![t.owner] = @ \ {wr.dmsg}]
    /\ workers' = [workers EXCEPT ![w] =
                     [wr EXCEPT !.pc = "next", !.todo = Tail(wr.todo), !.dmsg = NoMsg]]
    /\ UNCHANGED board

\* the board after lead added NumRaceTasks tasks for the reviewer
RECURSIVE RaceBoard(_)
RaceBoard(n) ==
    IF n = 0 THEN default_board
    ELSE add_task_mutate(RaceBoard(n - 1), n, "reviewer", <<>>, "lead", 0).board

RaceInit ==
    /\ board = RaceBoard(NumRaceTasks)
    /\ clock = 0
    /\ last = NoCall
    /\ InitIdleLock
    /\ inbox = [r \in Roles |-> {}]
    /\ archive = [r \in Roles |-> {}]
    /\ deadletter = [r \in Roles |-> {}]
    /\ done = {} /\ plock = <<>> /\ retries = <<>> /\ receipts = <<>>
    /\ workers = [w \in RaceDispatchers |-> RaceIdle]
    /\ alive = {} /\ nextPid = 1 /\ newIds = 0 /\ ghost = <<>>
    /\ router = NoRouter /\ supervisor = NoSupervisor /\ serial = NoSerial

RaceNext ==
    \E w \in RaceDispatchers :
        \/ race_list(w) /\ UNCHANGED raceRest
        \/ race_enqueue(w) /\ UNCHANGED raceRest
        \/ race_set_read(w) /\ UNCHANGED raceRest
        \/ race_set_write(w) /\ UNCHANGED raceRest
        \/ race_unlink(w) /\ UNCHANGED raceRest

RaceSpec == RaceInit /\ [][RaceNext]_vars

---------------------------------------------------------------------------
(* Properties: the locks and the worker loop first, the task-board API    *)
(* after them.                                                             *)

Tasks == board.tasks
Terminal == {"completed", "failed"}

\* the task a call named, as it was before the call (0: not on the board)
Target == task_index(board, last'.task_id)

\* inside the with DirLock(...) body of _update_board
InCriticalSection(p) == procs[p].pc \in {"read_json", "mutate"}

\* C1: of the claim_task calls racing for one pending task, at most one
\* returns 'claimed'.
C1_AtMostOneClaimed ==
    Cardinality({p \in Procs : procs[p].reason = "claimed"}) <= 1

\* C2: no two live processes are inside the DirLock critical section of the
\* task board at the same time.
C2_MutualExclusion ==
    \A p, q \in Procs : p # q => ~(InCriticalSection(p) /\ InCriticalSection(q))

\* the daemon holds the processing lock of its message, as far as it knows
Processing(w) ==
    /\ workers[w].msg # NoMsg
    /\ workers[w].pc \notin {"idle", "crashed", "read", "done_check", "archive_done",
                              "lock_exists", "lock_read_pid", "lock_age", "lock_mkdir",
                              "lock_write_pid"}
    /\ ~(workers[w].pc \in {"cleanup_exists", "cleanup_unlink", "cleanup_rmdir",
                              "cleanup_rename", "cleanup_rm"}
           /\ workers[w].ret = "lock_mkdir")

\* C3: no two daemons of a role process one message at the same time, the
\* tool succeeds at most once per message and role, and a dead-lettered
\* message has seen at most three failed runs.
C3_AtMostOnce ==
    /\ \A v, w \in DOMAIN workers :
          (v # w /\ Processing(v) /\ Processing(w)) => key(workers[v]) # key(workers[w])
    /\ \A k \in Keys : ghost.successes[k] <= 1
    /\ \A r \in Roles : \A m \in deadletter[r] :
          ghost.runs[<<m.id, r>>] - ghost.successes[<<m.id, r>>] <= MaxRetries

\* the tool was invoked, or a receipt written, for message m by role r
Processed(m, r) == ghost.runs[<<m.id, r>>] > 0 \/ receipts[<<m.id, r>>] # NoReceipt

\* C9: a message that carries a task_id is processed by role r only if r
\* is the owner of that task.
C9_OnlyOwnerProcesses ==
    \A r \in Roles : \A m \in inbox[r] \cup archive[r] \cup deadletter[r] :
        (m.task_id # 0 /\ task_index(board, m.task_id) # 0 /\ Processed(m, r)) =>
            Tasks[task_index(board, m.task_id)].owner = r

C5_CompleteOnlyByClaimer ==
    [][/\ (last'.op = "complete_task" /\ Target # 0) =>
             /\ Tasks[Target].status \in {"pending", "failed"} =>
                    /\ ~last'.ok /\ last'.reason = "not_in_progress"
                    /\ board' = board
             /\ (Tasks[Target].status = "in_progress"
                   /\ Tasks[Target].claimed_by # last'.role) =>
                    /\ ~last'.ok /\ last'.reason = "claimed_by_other"
                    /\ board' = board
       /\ \A i \in 1..Len(board'.tasks) :
             (board'.tasks[i].status = "completed"
                /\ (i > Len(Tasks) \/ Tasks[i].status # "completed")) =>
                 /\ i <= Len(Tasks)
                 /\ last'.op = "complete_task" /\ last'.ok
                 /\ last'.task_id = Tasks[i].id
                 /\ Tasks[i].status = "in_progress"
                 /\ Tasks[i].claimed_by = last'.role]_vars

\* complete_task by a role that does not hold the claim was refused
C5_Witness ==
    /\ last.op = "complete_task" /\ ~last.ok /\ last.reason = "claimed_by_other"
    /\ \E i \in 1..Len(Tasks) :
          /\ Tasks[i].id = last.task_id
          /\ Tasks[i].status = "in_progress"
          /\ Tasks[i].claimed_by # last.role

\* C6: every completed task has all its dependencies completed and was
\* completed by the role that claimed it.
C6_CompletedInvariant ==
    \A i \in 1..Len(Tasks) :
        Tasks[i].status = "completed" =>
            /\ Tasks[i].completed_by = Tasks[i].claimed_by
            /\ \A k \in 1..Len(Tasks[i].depends_on) :
                  \E j \in 1..Len(Tasks) :
                      /\ Tasks[j].id = Tasks[i].depends_on[k]
                      /\ Tasks[j].status = "completed"

\* a task with a dependency has been completed
C6_Witness ==
    \E i \in 1..Len(Tasks) :
        Tasks[i].status = "completed" /\ Tasks[i].depends_on # <<>>

\* the unmet dependencies of task i, from the claim's words: the listed ids
\* that are not a completed task of the board
Unmet(b, i) ==
    SelectSeq(b.tasks[i].depends_on,
              LAMBDA d : ~\E j \in 1..Len(b.tasks) :
                              b.tasks[j].id = d /\ b.tasks[j].status = "completed")

\* no step moves a pending task with an unmet dependency to in_progress
NeverClaimedBlocked ==
    \A i \in 1..Len(Tasks) :
        (Tasks[i].status = "pending" /\ Unmet(board, i) # <<>>) =>
            board'.tasks[i].status # "in_progress"

\* C7 as stated: claim_task on a pending task with an unmet dependency
\* returns deps_blocked with the unmet ids, whoever calls it.
C7_AsStated ==
    [][/\ NeverClaimedBlocked
       /\ (last'.op = "claim_task" /\ Target # 0
             /\ Tasks[Target].status = "pending" /\ Unmet(board, Target) # <<>>) =>
              /\ ~last'.ok /\ last'.reason = "deps_blocked"
              /\ last'.missing = Unmet(board, Target)
              /\ board' = board]_vars

\* C7 (amended): neither claim_task nor claim_next_task moves a pending task
\* with an unmet dependency to in_progress; claim_task by a role that passes
\* the owner check returns deps_blocked with the unmet ids, board unchanged.
C7_DependencyGate ==
    [][/\ NeverClaimedBlocked
       /\ (last'.op = "claim_task" /\ Target # 0
             /\ Tasks[Target].status = "pending" /\ Unmet(board, Target) # <<>>) =>
              /\ ~last'.ok
              /\ board' = board
              /\ Tasks[Target].owner \in {"", last'.role} =>
                     /\ last'.reason = "deps_blocked"
                     /\ last'.missing = Unmet(board, Target)
              /\ Tasks[Target].owner \notin {"", last'.role} =>
                     last'.reason = "owner_mismatch"]_vars

\* the owner was refused for a dependency that is on the board, not completed
C7_Witness ==
    /\ last.op = "claim_task" /\ last.reason = "deps_blocked" /\ last.missing # <<>>
    /\ \E i, j \in 1..Len(Tasks) :
          /\ Tasks[i].id = last.task_id /\ Tasks[i].status = "pending"
          /\ Tasks[i].owner = last.role
          /\ Tasks[j].id = last.missing[1] /\ Tasks[j].status = "in_progress"

\* no step puts a task in progress for a role other than its owner
NeverClaimedByNonOwner(owners) ==
    \A i \in 1..Len(Tasks) :
        (Tasks[i].owner \in owners /\ Tasks[i].status # "in_progress"
           /\ board'.tasks[i].status = "in_progress") =>
            board'.tasks[i].claimed_by = Tasks[i].owner

\* C8 as stated: no role other than the owner gets the task, and claim_task
\* by such a role fails with owner_mismatch.
C8_AsStated ==
    [][/\ NeverClaimedByNonOwner(Owners)
       /\ (last'.op = "claim_task" /\ Target # 0
             /\ Tasks[Target].owner # last'.role) =>
              /\ ~last'.ok /\ last'.reason = "owner_mismatch"
              /\ board' = board]_vars

\* C8 (amended): for a task with a non-empty owner, no other role gets it
\* through claim_task or claim_next_task, and claim_task by another role on
\* the task while it is pending fails with owner_mismatch, board unchanged.
C8_OwnerOnly ==
    [][/\ NeverClaimedByNonOwner(Roles)
       /\ (last'.op = "claim_task" /\ Target # 0
             /\ Tasks[Target].owner \notin {"", last'.role}) =>
              /\ ~last'.ok
              /\ board' = board
              /\ Tasks[Target].status = "pending" => last'.reason = "owner_mismatch"]_vars

\* another role was refused a pending task whose dependencies are met
C8_Witness ==
    /\ last.op = "claim_task" /\ last.reason = "owner_mismatch"
    /\ \E i \in 1..Len(Tasks) :
          /\ Tasks[i].id = last.task_id /\ Tasks[i].status = "pending"
          /\ Tasks[i].owner \notin {"", last.role}
          /\ deps_satisfied(board, Tasks[i])

\* C10: set_dispatch(T, m) on a task already bound to m returns
\* already_dispatched_same and leaves the board unchanged, whatever from,
\* to and intent it is called with.
C10_DispatchIdempotent ==
    [][(last'.op = "set_dispatch" /\ Target # 0
          /\ Tasks[Target].dispatch.set
          /\ Tasks[Target].dispatch.message_id # EmptyText
          /\ Tasks[Target].dispatch.message_id = strip(last'.mid)) =>
           /\ last'.ok /\ last'.reason = "already_dispatched_same"
           /\ board' = board]_vars

\* the same id came again, padded and from another sender
C10_Witness ==
    /\ last.op = "set_dispatch" /\ last.reason = "already_dispatched_same"
    /\ last.mid = Pad(M1)
    /\ \E i \in 1..Len(Tasks) :
          /\ Tasks[i].id = last.task_id
          /\ Tasks[i].dispatch.message_id = M1
          /\ Tasks[i].dispatch.from # last.role
          /\ Len(Tasks[i].history) = 2

\* a file of message id mid is left in an inbox, an archive or state/done
dispatch_evidence(mid) ==
    \/ \E r \in DOMAIN inbox : \E m \in inbox[r] : m.id = mid
    \/ \E r \in DOMAIN archive : \E m \in archive[r] : m.id = mid
    \/ \E k \in done : k[1] = mid

\* the call named a task on the board that is bound to another message id
Rebinding ==
    /\ last'.op = "set_dispatch" /\ Target # 0
    /\ Tasks[Target].dispatch.set
    /\ Tasks[Target].dispatch.message_id # EmptyText
    /\ strip(last'.mid) # EmptyText
    /\ Tasks[Target].dispatch.message_id # strip(last'.mid)

\* C11: set_dispatch(T, m2) on a task bound to m1, of which no inbox,
\* archive or done file is left (stale TTL 0), succeeds and binds T to m2.
C11_StaleRedispatch ==
    [][(Rebinding /\ ~dispatch_evidence(Tasks[Target].dispatch.message_id)) =>
           /\ last'.ok
           /\ board'.tasks[Target].dispatch.message_id = strip(last'.mid)]_vars

\* C12: set_dispatch(T, m2) on a task bound to m1, of which a file is left,
\* returns ok=false already_dispatched and leaves the board unchanged;
\* set_dispatch on a task id not on the board returns ok=false not_found
\* and leaves the board unchanged.
C12_OneBinding ==
    [][/\ (Rebinding /\ dispatch_evidence(Tasks[Target].dispatch.message_id)) =>
              /\ ~last'.ok /\ last'.reason = "already_dispatched"
              /\ board' = board
       /\ (last'.op = "set_dispatch" /\ Target = 0) =>
              /\ ~last'.ok /\ last'.reason = "not_found"
              /\ board' = board]_vars

\* m2 was refused for a task bound to m1 while m1 lies in the inbox
C12_Witness ==
    /\ last.op = "set_dispatch" /\ last.reason = "already_dispatched" /\ last.mid = M2
    /\ \E i \in 1..Len(Tasks) :
          /\ Tasks[i].id = last.task_id
          /\ Tasks[i].dispatch.message_id = M1
          /\ Len(Tasks[i].history) = 2
    /\ \E m \in inbox["builder-a"] : m.id = M1

\* no daemon has died or been started again
NoCrash == ghost.restarts = 0 /\ \A w \in DOMAIN workers : workers[w].pc # "crashed"

\* no daemon of the role is handling the message at the moment
AtRest(mid, r) ==
    \A w \in DOMAIN workers : workers[w].role = r => workers[w].msg.id # mid

\* every tool run for the message and role so far exited non-zero
AllRunsFailed(k) == ghost.successes[k] = 0 /\ ~ghost.wrote[k]

\* the status of the task a message names (failed when it names none)
TaskFailed(m) ==
    m.task_id # 0 => \E i \in 1..Len(Tasks) :
                        Tasks[i].id = m.task_id /\ Tasks[i].status = "failed"

\* C13: while every tool run for message M and role R exits non-zero, the
\* daemon of R runs the tool at most three times; between two cycles the
\* retry counter equals the number of runs, M lies in the inbox with a
\* receipt of status retry; with the counter at 3 the next cycle runs no
\* tool and leaves M in deadletter/R/ with a receipt of status deadletter
\* and codex_rc 99 and the task failed: exactly three runs.
C13_RetryThenDeadletter ==
    NoCrash =>
      \A r \in Roles : \A m \in inbox[r] \cup deadletter[r] \cup archive[r] :
        LET k == <<m.id, r>> IN
        (AllRunsFailed(k) /\ ghost.runs[k] > 0) =>
          /\ ghost.runs[k] <= MaxRetries
          /\ retries[k] <= ghost.runs[k] /\ ghost.runs[k] <= retries[k] + 1
          /\ m \notin archive[r]
          /\ (m \in deadletter[r]) => (ghost.runs[k] = MaxRetries /\ retries[k] = MaxRetries)
          /\ AtRest(m.id, r) =>
                /\ retries[k] = ghost.runs[k]
                /\ (m \in inbox[r]) => receipts[k] = Receipt("retry", 1, clock)
                /\ (m \in deadletter[r]) =>
                       /\ receipts[k] = Receipt("deadletter", 99, clock)
                       /\ TaskFailed(m)

\* m1 lies in deadletter/builder-a/ after three failed runs, with the
\* deadletter receipt written and task 1 failed
C13_Witness ==
    /\ NoCrash
    /\ Msg(M1, 1) \in deadletter["builder-a"]
    /\ AtRest(M1, "builder-a")
    /\ ghost.runs[<<M1, "builder-a">>] = 3 /\ ghost.successes[<<M1, "builder-a">>] = 0
    /\ receipts[<<M1, "builder-a">>] = Receipt("deadletter", 99, clock)
    /\ \E i \in 1..Len(Tasks) : Tasks[i].id = 1 /\ Tasks[i].status = "failed"

\* C14: a daemon that finds the done sentinel of the inbox message it
\* examines moves the message to the archive of its role and, for that
\* message, runs no tool, writes no receipt and leaves the board unchanged.
C14_DoneDedup ==
    [][\A w \in DOMAIN workers :
         LET wr == workers[w] IN
         /\ (wr.pc = "done_check" /\ key(wr) \in done /\ workers'[w] # wr) =>
                workers'[w].pc \in {"archive_done", "crashed"}
         /\ (wr.pc = "archive_done" /\ workers'[w] # wr) =>
                /\ board' = board /\ receipts' = receipts /\ ghost' = ghost
                /\ retries' = retries /\ done' = done
                /\ workers'[w].pc \in {"idle", "crashed"}
                /\ workers'[w].pc = "idle" =>
                       /\ wr.msg \in inbox[wr.role]
                       /\ wr.msg \in archive'[wr.role] /\ wr.msg \notin inbox'[wr.role]]_vars

\* the daemon found the done sentinel of a message that lies in its inbox
C14_Witness ==
    \E w \in DOMAIN workers :
        /\ workers[w].pc = "archive_done"
        /\ key(workers[w]) \in done
        /\ workers[w].msg \in inbox[workers[w].role]

\* C15: wherever the done sentinel of message M and role R exists, the
\* outbox holds a receipt of (M, R) (one file, bus/outbox/M.R.md) and its
\* status is done or deadletter.
C15_SentinelHasReceipt ==
    \A k \in done : receipts[k].status \in {"done", "deadletter"}

\* the task the daemon claimed for its message is failed on the board b
ClaimedTaskFailed(wr, b) ==
    (wr.task_id # 0 /\ wr.task_claimed) =>
        \E i \in 1..Len(b.tasks) : b.tasks[i].id = wr.task_id /\ b.tasks[i].status = "failed"

\* C16: when the tool run of a role that may not write the repository exits
\* 0 and leaves a changed path the baseline did not hold, the daemon marks
\* the claimed task failed, writes a receipt of status deadletter and
\* codex_rc 97 and moves the message to deadletter/<role>/, neither
\* completing the task nor writing the done sentinel; the run of a builder
\* role that exits 0 goes on to the done receipt whatever it changed.
C16_RoleBoundary ==
    [][\A w \in DOMAIN workers :
         LET wr == workers[w]  wn == workers'[w]  k == key(wr) IN
         /\ (wr.pc = "codex_exec" /\ wn # wr /\ wn.rc = 0) =>
                /\ wn.pc = IF wn.new_paths THEN "boundary_fail" ELSE "write_receipt"
                /\ role_allows_repo_writes(wr.role) => wn.pc = "write_receipt"
         /\ (wr.pc = "boundary_fail" /\ wn # wr) =>
                /\ wn.pc = "boundary_receipt"
                /\ ClaimedTaskFailed(wr, board')
                /\ done' = done /\ receipts' = receipts
         /\ (wr.pc = "boundary_receipt" /\ wn # wr) =>
                /\ wn.pc = "boundary_rename"
                /\ receipts'[k] = Receipt("deadletter", 97, clock)
                /\ done' = done /\ board' = board
         /\ (wr.pc = "boundary_rename" /\ wn # wr) =>
                /\ wr.msg \in deadletter'[wr.role] /\ wr.msg \notin inbox'[wr.role]
                /\ wr.msg \notin archive'[wr.role]
                /\ k \notin done'
                /\ ClaimedTaskFailed(wr, board') /\ board' = board
                /\ receipts'[k] = Receipt("deadletter", 97, clock)
                /\ wn.pc = "cleanup_exists" /\ wn.ret = "idle"]_vars

\* C17: a message of a role that may not write the repository, for which
\* some tool run (whatever its exit code) added a changed path to the
\* worktree, is never archived as done.
C17_NoNewPathArchived ==
    \A r \in Roles : \A m \in archive[r] :
        ~role_allows_repo_writes(r) => ~ghost.wrote[<<m.id, r>>]

\* m1 is done for builder-a: done receipt, done sentinel, message archived
RecoveredDone ==
    /\ receipts[RecoveryKey] = Receipt("done", 0, clock)
    /\ RecoveryKey \in done
    /\ Msg(M1, 0) \in archive["builder-a"] /\ Msg(M1, 0) \notin inbox["builder-a"]

\* C18: a lock directory left behind (no readable pid, a dead pid, or older
\* than the stale threshold) does not block: the next process to take the
\* task-board lock comes to hold it, the daemon that finds such a
\* processing lock on its message takes it over and runs the tool, and a
\* run that succeeds leads to the done receipt, the sentinel and the
\* archive.
C18_StaleLockRecovery ==
    /\ <>(\E p \in RecoveryProcs : InCriticalSection(p) /\ lockDir /\ lockPid = p)
    /\ <>(\E w \in RecoveryWorkers :
             /\ workers[w].pc = "codex_exec"
             /\ plock[RecoveryKey] = [dir |-> TRUE, pid |-> workers[w].pid])
    /\ ((ghost.successes[RecoveryKey] > 0) ~> RecoveredDone)

\* both locks were taken over: the call returned 'claimed' and m1 is done
C18_Witness ==
    /\ \E p \in RecoveryProcs : procs[p].pc = "returned" /\ procs[p].reason = "claimed"
    /\ ~lockDir
    /\ RecoveredDone
    /\ ghost.runs[RecoveryKey] = 1
    /\ plock[RecoveryKey] = NoLock


\* "routed" as the spec defines it: the processed-state file of the receipt
\* holds the SHA-256 of the receipt's current content
Routed(k) == router.processed[k] = sha256_text(receipts[k]) \o <<"\n">>

\* C19: when process_receipt marks a receipt that has not changed since it
\* was read, the stored hash is the SHA-256 of the file's current content;
\* and while that is so, no router pass over the file enqueues a message or
\* changes any state: every router step on it leaves all variables alone.
C19_RouterIdempotent ==
    [][\A k \in RouterFiles :
         /\ (router.pc = "mark" /\ router.file = k /\ router'.pc = "idle"
                /\ receipts[k] = router.raw) => Routed(k)'
         /\ (Routed(k) /\ router.pc = "idle" /\ router' # router) => router'.file # k
      ]_vars

\* the reviewer's receipt of m2 was forwarded to lead and to builder-a and
\* marked; the file is unchanged and the router is at rest
C19_Witness ==
    LET k == <<M2, "reviewer">> IN
    /\ router.pc = "idle" /\ Routed(k)
    /\ receipts[k] = Receipt("done", 0, 0)
    /\ router.forwarded = <<Forwarded(k, receipts[k], "lead"),
                            Forwarded(k, receipts[k], "builder-a")>>

\* C20: no content of a receipt file is forwarded twice to the same role:
\* the inbox files the router wrote differ in receipt file, content or target.
C20_ForwardedOnce ==
    \A i, j \in DOMAIN router.forwarded :
        i # j => router.forwarded[i] # router.forwarded[j]

\* C21: the router enqueues no inbox message for the receipt of a message
\* the router itself sent (request_from "router"): no forward and no
\* directive, on any pass.
C21_NoRouterLoop ==
    \A j \in DOMAIN router.forwarded : request_from(router.forwarded[j].file) # "router"

\* the router has begun or finished to handle the receipt file
Started(k) == router.file = k \/ router.processed[k] # EmptyText

\* the inbox files with that text written for directive i of receipt k
Sent(k, i, bodies) ==
    {j \in DOMAIN router.forwarded :
        /\ router.forwarded[j].file = k /\ router.forwarded[j].of = i
        /\ router.forwarded[j].body \in bodies}

\* the roles a to= expression names: its parts that are roles and, for
\* "all", every role but the sender
NamedRoles(d, sender_role) ==
    {r \in RouterRoles :
        \E n \in DOMAIN d.to : d.to[n] = r \/ (lower(d.to[n]) = "all" /\ r # sender_role)}

FollowUpIntents == {"question", "review", "test", "fix", "info", "alert"}

\* every message sent for directive i is the alert of the router to lead
IsAlert(k, i) ==
    \A j \in Sent(k, i, {"disallowed", "invalid", "directive"}) :
        LET e == router.forwarded[j] IN
        e.body # "directive" /\ e.to = "lead" /\ e.from = "router" /\ e.intent = "alert"

\* C22 as the spec states it: a directive of a role other than lead is
\* delivered only with one of the six follow-up intents; a directive with
\* a disallowed intent or with no valid target is delivered to nobody and
\* gives exactly one alert to lead; lead's directives are delivered with
\* any intent.
C22_AsStated ==
    \A k \in RouterFiles :
        (Started(k) /\ receipts[k] # EmptyFile /\ request_from(k) # "router") =>
        \A i \in DOMAIN receipts[k].last_msg :
            LET d == receipts[k].last_msg[i]
                allowed == k[2] = "lead" \/ lower(d.intent) \in FollowUpIntents
                named == NamedRoles(d, k[2])
            IN  /\ Sent(k, i, {"directive"}) # {} => allowed
                /\ (~allowed \/ named = {}) =>
                      /\ Sent(k, i, {"directive"}) = {}
                      /\ Cardinality(Sent(k, i, {"disallowed", "invalid"})) = 1
                      /\ IsAlert(k, i)
                /\ (k[2] = "lead" /\ named # {} /\ d.message # "") =>
                      {router.forwarded[j].to : j \in Sent(k, i, {"directive"})} = named

\* C22: a directive is delivered, once to each role it names, from the
\* sender and with its intent, exactly when it has an intent, the sender
\* is lead or the intent is one of the six follow-up intents in any case
\* of letters, it has a message and it names a role; a directive whose
\* intent is missing or disallowed, or that has a message and names no
\* role, is delivered to nobody and gives exactly one alert from router to
\* lead; an allowed directive without a message is dropped without alert.
C22_DirectiveGating ==
    \A k \in RouterFiles :
        (Started(k) /\ receipts[k] # EmptyFile /\ request_from(k) # "router") =>
        \A i \in DOMAIN receipts[k].last_msg :
            LET d == receipts[k].last_msg[i]
                allowed == d.intent # ""
                             /\ (k[2] = "lead" \/ lower(d.intent) \in FollowUpIntents)
                named == NamedRoles(d, k[2])
                delivered == Sent(k, i, {"directive"})
                alerts == Sent(k, i, {"disallowed", "invalid"})
            IN  IF allowed /\ d.message # "" /\ named # {}
                THEN /\ alerts = {}
                     /\ \A r \in named :
                          Cardinality({j \in delivered : router.forwarded[j].to = r}) = 1
                     /\ \A j \in delivered :
                          /\ router.forwarded[j].to \in named
                          /\ router.forwarded[j].from = k[2]
                          /\ router.forwarded[j].intent = d.intent
                ELSE /\ delivered = {}
                     /\ IsAlert(k, i)
                     /\ Cardinality(alerts) = IF allowed /\ d.message = "" THEN 0 ELSE 1

\* the reviewer's receipt holds a review directive to all and an implement
\* directive: two deliveries, one alert
C22_Witness ==
    LET k == <<M2, "reviewer">> IN
    /\ router.processed[k] # EmptyText
    /\ receipts[k].last_msg = <<Directive(<<"ALL">>, "Review", "go"),
                                Directive(<<"bogus">>, "implement", "go")>>
    /\ {router.forwarded[j].to : j \in Sent(k, 1, {"directive"})} = {"lead", "builder-a"}
    /\ Cardinality(Sent(k, 2, {"disallowed"})) = 1

\* the forwards of receipt k to that role
ForwardsTo(k, to) ==
    {j \in DOMAIN router.forwarded :
        /\ router.forwarded[j].file = k /\ router.forwarded[j].body = "receipt"
        /\ router.forwarded[j].to = to}

\* the request_from line parse_frontmatter finds in the receipt text
front_request_from(k) == IF receipts[k] = EmptyFile THEN "" ELSE request_from(k)

\* C23: once a receipt not sent on behalf of the router is handled, there is
\* exactly one forward of it to lead, exactly one to request_from when that
\* is a role other than lead, and none to any other role; each is from
\* router, with intent alert and risk medium for status retry or
\* deadletter, intent receipt and risk low otherwise.
C23_ForwardingPolicy ==
    \A k \in RouterFiles :
        (router.processed[k] # EmptyText /\ front_request_from(k) # "router") =>
        /\ \A r \in RouterRoles \cup {"", "router", "bogus"} :
              Cardinality(ForwardsTo(k, r)) =
                 IF r = "lead" \/ (r = front_request_from(k) /\ r \in RouterRoles) THEN 1 ELSE 0
        /\ \A j \in DOMAIN router.forwarded :
              LET e == router.forwarded[j]
                  alert == receipts[k].status \in {"retry", "deadletter"}
              IN  (e.file = k /\ e.body = "receipt") =>
                    /\ e.to \in RouterRoles /\ e.from = "router" /\ e.raw = receipts[k]
                    /\ e.intent = IF alert THEN "alert" ELSE "receipt"
                    /\ e.risk = IF alert THEN "medium" ELSE "low"

\* the reviewer's retry receipt of builder-a's message went to lead and to
\* builder-a as alerts
C23_Witness ==
    LET k == <<M2, "reviewer">> IN
    /\ router.processed[k] # EmptyText
    /\ receipts[k].status = "retry"
    /\ \E i, j \in DOMAIN router.forwarded :
         /\ router.forwarded[i].to = "lead" /\ router.forwarded[j].to = "builder-a"
         /\ router.forwarded[i].intent = "alert" /\ router.forwarded[j].risk = "medium"
         /\ router.forwarded[i].body = "receipt" /\ router.forwarded[j].body = "receipt"

\* the task with that id on the board
TaskById(b, id) == b.tasks[task_index(b, id)]

\* the call made last was claim_task(id, R) and it claimed the task
JustClaimed(id, R) ==
    /\ last.op = "claim_task" /\ last.task_id = id /\ last.role = R
    /\ last.ok /\ last.reason = "claimed"

\* C30: claim_task(T, R) on a pending task owned by R with its dependencies
\* completed succeeds, puts T in progress and appends one history entry
\* 'claimed' by R; complete_task(T, R) called next succeeds, leaves T
\* completed and appends one entry 'completed' by R; each call keeps the
\* entries that were there, in their order.
C30_ClaimThenComplete ==
    [][\A id \in TaskIds, R \in Roles :
         LET i == task_index(board, id)
             old == TaskById(board, id)
             new == TaskById(board', id)
             n == Len(old.history)
         IN  i # 0 =>
             /\ (old.status = "pending" /\ old.owner = R /\ deps_satisfied(board, old)
                   /\ last'.op = "claim_task" /\ last'.task_id = id /\ last'.role = R
                   /\ last' # last) =>
                  /\ JustClaimed(id, R)'
                  /\ new.status = "in_progress" /\ new.claimed_by = R
                  /\ Len(new.history) = n + 1
                  /\ SubSeq(new.history, 1, n) = old.history
                  /\ new.history[n + 1].action = "claimed" /\ new.history[n + 1].by = R
             /\ (JustClaimed(id, R)
                   /\ last'.op = "complete_task" /\ last'.task_id = id /\ last'.role = R) =>
                  /\ last'.ok /\ last'.reason = "completed"
                  /\ new.status = "completed"
                  /\ Len(new.history) = n + 1 /\ n >= 1
                  /\ SubSeq(new.history, 1, n) = old.history
                  /\ old.history[n].action = "claimed" /\ old.history[n].by = R
                  /\ new.history[n + 1].action = "completed" /\ new.history[n + 1].by = R
      ]_vars

\* a task of builder-a was claimed and then completed by builder-a: its
\* history is created, claimed, completed
C30_Witness ==
    /\ last.op = "complete_task" /\ last.ok /\ last.reason = "completed"
    /\ last.role = "builder-a"
    /\ task_index(board, last.task_id) # 0
    /\ LET t == TaskById(board, last.task_id) IN
         /\ t.owner = "builder-a" /\ t.status = "completed"
         /\ Len(t.history) = 3
         /\ t.history[2].action = "claimed" /\ t.history[3].action = "completed"
\* the child called name has a running process started with specs[name].cmd
Running(name) ==
    /\ supervisor.procs[name].pid \in alive
    /\ supervisor.procs[name].cmd = ChildCmd(name)

SupervisorNames == {ChildNames[i] : i \in DOMAIN ChildNames}

\* C28: whenever a configured child (the router or a role worker) has no
\* running process and the stop flag is not set, the supervisor eventually
\* spawns a process for that name with the command of that name, unless the
\* stop flag is set in between.
C28_RestartLiveness ==
    \A n \in SupervisorNames :
        (supervisor.pc \notin {"start", "done"} /\ ~supervisor.stop /\ ~Running(n))
            ~> (Running(n) \/ supervisor.stop)

\* C28 witness: the builder-a worker was respawned after its first process
\* (pid 3) had exited, the stop flag not set.
C28_Witness ==
    /\ ~supervisor.stop
    /\ supervisor.procs["builder-a"].pid > Len(ChildNames)
    /\ Running("builder-a")
    /\ 3 \notin alive

\* the step is a spawn made by the monitor loop
MonitorSpawn == supervisor.pc = "restart" /\ nextPid' = nextPid + 1

\* C29: once the stop flag is set the monitor loop spawns no child process.
C29_NoSpawnAfterStop == [][MonitorSpawn => ~supervisor.stop]_vars

\* C27: in serial mode at most one worker is inside an external-tool
\* invocation at any time.
C27_SerialToolInvocations ==
    \A v, w \in SerialWorkers :
        serial.at[v].pc = "codex_exec" /\ serial.at[w].pc = "codex_exec" => v = w

\* the ids new_id() hands out in dispatch_ready_tasks
DispatchIds == {NewId(n) : n \in 1..MaxNewIds}

\* every dependency of the task with that id is a completed task on the board
DepsCompleted(b, id) ==
    \A k \in 1..Len(TaskById(b, id).depends_on) :
        LET dep == TaskById(b, id).depends_on[k] IN
        dep # 0 => /\ task_index(b, dep) # 0
                   /\ \A j \in 1..Len(b.tasks) :
                         b.tasks[j].id = dep => b.tasks[j].status = "completed"

BootstrapTasks(intent) ==
    {i \in existing(board, M1) : board.tasks[i].intent = intent}

\* C24: once the bootstrap message m1 has its done sentinel, the board holds
\* exactly one implement task owned by builder-a, one review task owned by
\* reviewer and one test task owned by tester with source m1, the review and
\* the test task depending on the implement task, also when the lead daemon
\* crashed while handling m1 and handled it again.
C24_WellFormedGraph ==
    <<M1, "lead">> \in done =>
        /\ Cardinality(existing(board, M1)) = 3
        /\ \E i \in BootstrapTasks("implement"), j \in BootstrapTasks("review"),
              k \in BootstrapTasks("test") :
              /\ board.tasks[i].owner = "builder-a" /\ board.tasks[i].depends_on = <<>>
              /\ board.tasks[j].owner = "reviewer"
              /\ board.tasks[j].depends_on = <<board.tasks[i].id>>
              /\ board.tasks[k].owner = "tester"
              /\ board.tasks[k].depends_on = <<board.tasks[i].id>>

\* claim_task refuses the message's task for a reason that makes process_one
\* pass the message over
Blocked(w, msg) ==
    /\ <<msg.id, w>> \notin done
    /\ msg.task_id # 0
    /\ claim_task_mutate(board, msg.task_id, w, msg.id).reason
          \in {"owner_mismatch", "claimed_by_other", "deps_blocked"}

\* the session is at rest: every daemon waits, every message still in an
\* inbox is one process_one passes over, the router has forwarded and marked
\* every receipt, and no task is dispatchable.  The steps left are polls and
\* scans that change no file.
SessionAtRest ==
    /\ \A w \in BootstrapRoles :
          workers[w].pc = "idle" /\ \A msg \in inbox[w] : Blocked(w, msg)
    /\ \A k \in DOMAIN receipts : ~Unrouted(k)
    /\ list_dispatchable_tasks(board, "") = <<>>

\* C26: on the happy path every task the bootstrap created is dispatched and
\* reaches completed, and the session comes to rest with every inbox empty
\* and no task dispatchable.  As a state predicate: where the session is at
\* rest, every inbox is empty and the three tasks are on the board,
\* completed.
C26_HappyPath ==
    SessionAtRest =>
        /\ \A w \in BootstrapRoles : inbox[w] = {}
        /\ Len(board.tasks) = 3
        /\ \A i \in 1..Len(board.tasks) : board.tasks[i].status = "completed"


\* the ids of a set of message files
Ids(msgs) == {msg.id : msg \in msgs}

\* the tool has handled the message for the role with success, or the
\* message is a duplicate of completed work: its task is completed
Handled(msg, r) ==
    \/ ghost.successes[<<msg.id, r>>] >= 1
    \/ /\ msg.task_id # 0
       /\ task_index(board, msg.task_id) # 0
       /\ board.tasks[task_index(board, msg.task_id)].status = "completed"

\* the handling of the message by the role has failed for good: a daemon of
\* the role holds the message and has read a retry count at the limit, or
\* its run of the tool broke the role boundary
TerminalFailure(msg, r) ==
    \E w \in DOMAIN workers :
        /\ workers[w].role = r /\ workers[w].msg = msg
        /\ workers[w].n >= MaxRetries \/ workers[w].new_paths

\* no message id lies in two of bus/inbox/R, state/archive/R, bus/deadletter/R
OnePlace ==
    \A r \in Roles :
        /\ Ids(inbox[r]) \cap Ids(archive[r]) = {}
        /\ Ids(inbox[r]) \cap Ids(deadletter[r]) = {}
        /\ Ids(archive[r]) \cap Ids(deadletter[r]) = {}

\* C31: messages are moved, never copied.  In every step: each message id of
\* a role lies in at most one of inbox, archive and dead-letter, before and
\* after; a file that comes into the archive leaves the inbox in the same
\* step, and its message has been handled with success or its task is
\* completed; a file that comes into dead-letter leaves the inbox in the same
\* step, and its handling has failed for good; nothing leaves the archive or
\* dead-letter, so no archived or dead-lettered id comes back to the inbox.
C31_MovedNeverCopied ==
    [][ /\ OnePlace /\ OnePlace'
        /\ \A r \in Roles :
             /\ archive[r] \subseteq archive'[r]
             /\ deadletter[r] \subseteq deadletter'[r]
             /\ \A msg \in archive'[r] \ archive[r] :
                   msg \in inbox[r] /\ msg \notin inbox'[r] /\ Handled(msg, r)
             /\ \A msg \in deadletter'[r] \ deadletter[r] :
                   msg \in inbox[r] /\ msg \notin inbox'[r] /\ TerminalFailure(msg, r)
      ]_vars

\* m1 is archived for builder-a and a message of the reviewer is dead-lettered
C31_Witness ==
    /\ Msg(M1, 1) \in archive["builder-a"]
    /\ deadletter["reviewer"] # {}


\* a purely numeric string of 1 to 20 characters
PureNumeric(s) ==
    /\ 1 <= Len(s) /\ Len(s) <= PID_MAX_LEN
    /\ \A i \in 1..Len(s) : s[i] \in AsciiDigits

\* the text in front of the first 64 bytes' trailing white space and behind
\* their leading white space
Preview(text) ==
    LET n == IF Len(text) < PID_PREVIEW_BYTES THEN Len(text) ELSE PID_PREVIEW_BYTES
        inside == {i \in 1..n : text[i] \notin Whitespace}
    IN IF inside = {} THEN <<>>
       ELSE SubSeq(text, CHOOSE i \in inside : \A j \in inside : i <= j,
                         CHOOSE i \in inside : \A j \in inside : j <= i)

\* the step of handle_errno22_invalid_lock_pid moves the lock directory away
LockdirQuarantined ==
    /\ router.lockdir /\ ~router'.lockdir
    /\ router'.bad_locks = Append(router.bad_locks, router.pid)

\* the step of handle_errno22_invalid_lock_pid quarantines the receipt at
\* hand and nothing else
OnlyReceiptQuarantined ==
    /\ router'.lockdir = router.lockdir /\ router'.pid = router.pid
    /\ router'.bad_locks = router.bad_locks
    /\ router'.lock_receipts = router.lock_receipts
    /\ router'.outbox = router.outbox \ {router.item}
    /\ router'.bad_receipts = router.bad_receipts \cup {router.item}

\* C32 as the claim words it: the lock directory is quarantined exactly when
\* the pid file the probe looked at cannot be lstat-ed, is no regular file,
\* or has a content that is not a purely numeric string of 1 to 20
\* characters.
C32_AsStated ==
    [][ router.pc = "handle" /\ router'.pc = "idle" =>
          (LockdirQuarantined <=>
              (router.seen.kind # "file" \/ ~PureNumeric(router.seen.text))) ]_vars

\* C32: on errno 22 at autopilot.global.lockdir/pid the router moves the lock
\* directory, when there is one, into state/router/bad-locks/ exactly when
\* the pid file the probe looked at cannot be lstat-ed, is no regular file,
\* or the first 64 bytes of its content, surrounding white space removed,
\* are not a purely numeric string of 1 to 20 characters; when they are, the
\* probe reports not-broken, the lock directory is left untouched and only
\* the receipt at hand is quarantined.
C32_LockIsolation ==
    [][ router.pc = "handle" /\ router'.pc = "idle" =>
          LET broken == \/ router.seen.kind # "file"
                        \/ ~PureNumeric(Preview(router.seen.text))
          IN /\ router.confirmed <=> broken
             /\ LockdirQuarantined <=> (broken /\ router.lockdir)
             /\ ~broken => OnlyReceiptQuarantined ]_vars

\* a lock directory whose pid file held text that is no pid lies in
\* bad-locks, and later a receipt was quarantined next to a healthy lock
C32_Witness ==
    /\ router.pc = "idle"
    /\ router.bad_locks # <<>>
    /\ router.bad_locks[1].kind = "file"
    /\ router.lockdir /\ router.pid.kind = "file"
    /\ router.bad_receipts # {}
    /\ Len(router.lock_receipts) = 1


\* the dispatch messages for a task that lie in the inbox of its owner
DispatchMessages(t) == {msg \in inbox[t.owner] : msg.task_id = t.id}

\* C33: dispatch leaves no duplicate task messages.  No call of
\* dispatch_ready_tasks sends more than DISPATCH_MAX_PER_SCAN messages; and
\* once the periodic dispatch of lead, the dispatch after a completion and
\* the self-dispatch have all returned, the inbox of a task's owner holds at
\* most one dispatch message for the task, and its id is the task's
\* dispatch.message_id.
C33_NoDuplicateDispatch ==
    /\ \A w \in RaceDispatchers : workers[w].sent <= DISPATCH_MAX_PER_SCAN
    /\ (\A w \in RaceDispatchers : workers[w].pc = "returned") =>
          \A i \in 1..Len(board.tasks) :
              /\ Cardinality(DispatchMessages(board.tasks[i])) <= 1
              /\ \A msg \in DispatchMessages(board.tasks[i]) :
                    msg.id = board.tasks[i].dispatch.message_id


\* the reasons of a refused claim that process_one calls blocked
BlockedReasons == {"owner_mismatch", "claimed_by_other", "deps_blocked"}

\* what claim_task answers for the message the daemon holds
ClaimAnswer(w) ==
    claim_task_mutate(board, workers[w].msg.task_id, workers[w].role, workers[w].msg.id)

\* the daemon is in the _cleanup_lockdir of the blocked branch
BlockedSkip(w) ==
    /\ workers[w].ret = "continue"
    /\ workers[w].pc \in {"cleanup_exists", "cleanup_unlink", "cleanup_rmdir",
                          "cleanup_rename", "cleanup_rm"}

\* the place of a file name in the sorted listing of an inbox
NamePlace(id) == CHOOSE k \in 1..Len(NameOrder) : NameOrder[k] = id

\* C34: blocked messages are skipped without side effects.  When claim_task
\* for an inbox message is refused with owner_mismatch, claimed_by_other or
\* deps_blocked, the daemon goes into _cleanup_lockdir and from there to the
\* next file of the same listing, the next one in file name order (or out
\* of the scan after the last file); on the way it leaves the message in
\* the inbox, runs no tool, writes no receipt and no done sentinel, and
\* leaves the retry counter and the task board as they are; when it goes
\* on, the message's processing lock is gone.
C34_BlockedSkipped ==
    [][\A w \in Workers :
         LET wr == workers[w] IN
         /\ ( /\ wr.pc = "claim" /\ workers'[w] # wr
              /\ wr.msg.task_id # 0
              /\ ~ClaimAnswer(w).ok /\ ClaimAnswer(w).reason \in BlockedReasons )
            => /\ BlockedSkip(w)'
               /\ workers'[w].msg = wr.msg
               /\ UNCHANGED <<board, fsVars, ghost>>
         /\ (BlockedSkip(w) /\ workers'[w] # wr)
            => /\ UNCHANGED <<board, inbox, archive, deadletter, done, retries,
                              receipts, ghost>>
               /\ \A k \in Keys : k # key(wr) => plock'[k] = plock[k]
               /\ ~BlockedSkip(w)'
                  => /\ plock'[key(wr)] = NoLock
                     /\ IF wr.i < Len(wr.files)
                        THEN /\ workers'[w].pc = "read"
                             /\ workers'[w].files = wr.files
                             /\ workers'[w].i = wr.i + 1
                             /\ NamePlace(wr.files[wr.i].id)
                                  < NamePlace(wr.files[wr.i + 1].id)
                        ELSE workers'[w] = IdleWorker(wr.role, wr.pid)
      ]_vars

\* C34 witness: the reviewer's daemon has passed over m1.md, whose task
\* waits for task 1, and stands at the next file of its listing, m2.md;
\* m1.md is still in the inbox, unlocked, without receipt, sentinel or
\* retry count, its task pending
C34_Witness ==
    LET wr == workers[2] IN
    /\ wr.role = "reviewer" /\ wr.pc = "read" /\ wr.i = 2
    /\ wr.files = <<Msg(M1, 2), Msg(M2, 1)>>
    /\ Msg(M1, 2) \in inbox["reviewer"]
    /\ plock[<<M1, "reviewer">>] = NoLock
    /\ receipts[<<M1, "reviewer">>] = NoReceipt
    /\ <<M1, "reviewer">> \notin done
    /\ retries[<<M1, "reviewer">>] = 0
    /\ board.tasks[2].status = "pending"
    /\ ghost.runs[<<M1, "reviewer">>] = 0


\* the positions of process_one from the retry count to the last write for
\* the selected message
HandlingPcs ==
    {"load_retries", "codex_exec", "write_receipt", "complete", "write_done",
     "archive", "retry_save", "retry_fail", "retry_receipt", "boundary_fail",
     "boundary_receipt", "boundary_rename", "deadletter_rename",
     "deadletter_fail", "deadletter_receipt"}

\* the daemon handles a message that names a task it has not claimed: the
\* claim was refused and the message was neither blocked nor found completed
MessageOnly(w) ==
    /\ workers[w].pc \in HandlingPcs
    /\ workers[w].msg.task_id # 0
    /\ ~workers[w].task_claimed

\* the task_id argument of the write_receipt calls of process_one: the
\* receipt has a task_id line when it is not empty
ReceiptTaskId(w) == workers[w].task_id

\* what C35 says apart from the invocation of the tool: a claim refused for
\* another reason than completed or blocked goes on with the message;
\* task_id is empty from there on, so no receipt gets a task_id line, and
\* no step for the message writes the task board
MessageOnlyFrame(w) ==
    LET wr == workers[w] IN
    /\ ( /\ wr.pc = "claim" /\ workers'[w] # wr
         /\ wr.msg.task_id # 0
         /\ ~ClaimAnswer(w).ok
         /\ ClaimAnswer(w).reason \notin BlockedReasons \cup {"completed"} )
       => /\ MessageOnly(w)' /\ workers'[w].pc = "load_retries"
          /\ workers'[w].msg = wr.msg
          /\ UNCHANGED board
    /\ MessageOnly(w)' => ReceiptTaskId(w)' = 0
    /\ (MessageOnly(w) /\ workers'[w] # wr)
       => /\ UNCHANGED board
          /\ receipts' # receipts => ReceiptTaskId(w) = 0

\* C35 as stated: message-only mode.  When claim_task for an inbox message
\* is refused with a reason other than completed, owner_mismatch,
\* claimed_by_other or deps_blocked, the daemon goes on with task_id
\* cleared: the tool is invoked, the receipt carries no task_id, and
\* neither complete_task nor mark_task_failed is applied for the message.
C35_AsStated ==
    [][\A w \in Workers :
         /\ MessageOnlyFrame(w)
         /\ ( /\ MessageOnly(w) /\ workers[w].pc = "load_retries"
              /\ workers'[w] # workers[w] )
            => workers'[w].pc = "codex_exec"
      ]_vars

\* C35, amended: the same, but the tool is invoked only while the message's
\* retry count is below the limit; at the limit the message is moved to
\* dead-letter, still without a task_id on the receipt and without a write
\* to the task board.
C35_MessageOnly ==
    [][\A w \in Workers :
         /\ MessageOnlyFrame(w)
         /\ ( /\ MessageOnly(w) /\ workers[w].pc = "load_retries"
              /\ workers'[w] # workers[w] )
            => workers'[w].pc = IF retries[key(workers[w])] < MaxRetries
                                THEN "codex_exec" ELSE "deadletter_rename"
      ]_vars

\* C35 witness: the reviewer's daemon has run the tool for m2.md, whose
\* task has failed, and is about to write the receipt with an empty task_id
C35_Witness ==
    \E w \in Workers :
        /\ MessageOnly(w) /\ workers[w].pc = "write_receipt"
        /\ workers[w].role = "reviewer" /\ workers[w].msg = Msg(M2, 1)
        /\ board.tasks[1].status = "failed"
        /\ ghost.runs[<<M2, "reviewer">>] >= 1
        /\ ReceiptTaskId(w) = 0


\* the task has a non-empty dispatch.message_id
Bound(t) == t.dispatch.set /\ strip(t.dispatch.message_id) # EmptyText

\* the tasks the claim says are dispatchable
Ready(b, owner) ==
    {i \in 1..Len(b.tasks) :
        /\ b.tasks[i].status = "pending"
        /\ b.tasks[i].owner # ""
        /\ owner # "" => b.tasks[i].owner = owner
        /\ DepsCompleted(b, b.tasks[i].id)
        /\ ~Bound(b.tasks[i])}

\* the list holds exactly the ready tasks, each once, in (created_at, id)
\* order
ListsReady(b, owner) ==
    LET out == list_dispatchable_tasks(b, owner) IN
    /\ {out[k] : k \in 1..Len(out)} = Ready(b, owner)
    /\ \A k, l \in 1..Len(out) :
          k < l => sort_before(b.tasks[out[k]], b.tasks[out[l]])

Spawned == 1..(nextPid - 1)

\* pids.txt lists the process in procs of every child name that has one,
\* and nothing else
ListsCurrent ==
    /\ {supervisor.pids[k] : k \in 1..Len(supervisor.pids)}
         = {<<n, supervisor.procs[n].pid>> : n \in {c \in SupervisorNames : supervisor.procs[c].pid # 0}}
    /\ Len(supervisor.pids)
         = Cardinality({c \in SupervisorNames : supervisor.procs[c].pid # 0})

OnBoard(file) == {read_json(file).tasks[i].id : i \in 1..Len(read_json(file).tasks)}

\* C38: no lost board updates.  Under any interleaving of task-board calls
\* of several processes, mutations and reads, each of which starts with
\* ensure_task_board, a task once added stays on the board, and no write
\* replaces the file with a board made from an older content of it.
C38_NoLostUpdate ==
    [][ /\ OnBoard(board) \subseteq OnBoard(board')
        /\ \A p \in Procs :
              /\ (procs[p].pc = "mutate" /\ board' # board)
                    => procs[p].snap = read_json(board)
              /\ (procs[p].pc = "ensure_write" /\ procs'[p].pc # "ensure_write"
                    /\ board' # board)
                    => board = NoFile
      ]_vars


\* the daemon is inside process_one with the message of that key selected
\* or under examination
InsideOn(w, k) ==
    /\ workers[w].pc \notin {"idle", "crashed"}
    /\ workers[w].role = k[2]
    /\ workers[w].msg.id = k[1]

ClaimedFor(r, msg) ==
    LET task == TaskById(board, msg.task_id) IN
    \E k \in 1..Len(task.history) :
        /\ task.history[k].action = "claimed"
        /\ task.history[k].by = r
        /\ task.history[k].note = msg.id

\* the message lies in the archive of the role with its done sentinel and
\* a receipt of status done, and names a task its worker has claimed
ArchivedAsDone(r, msg) ==
    /\ msg \in archive[r]
    /\ <<msg.id, r>> \in done
    /\ receipts[<<msg.id, r>>].status = "done"
    /\ msg.task_id # 0
    /\ task_index(board, msg.task_id) # 0
    /\ ClaimedFor(r, msg)

\* C40: a message archived as done implies its task is completed.  For
\* every message with a task that its role has claimed: if the message is
\* in the role's archive with its done sentinel and a receipt of status
\* done, the task is completed and completed_by is that role.
C40_ArchivedImpliesCompleted ==
    \A r \in Roles : \A msg \in archive[r] :
        ArchivedAsDone(r, msg) =>
            /\ TaskById(board, msg.task_id).status = "completed"
            /\ TaskById(board, msg.task_id).completed_by = r

=============================================================================
